---- MODULE Spec2Model ----
(***************************************************************************)
(* PgQueryBuilder: the filter-condition builder, the operator registry and *)
(* the query assembler, as state machines.                                 *)
(*                                                                         *)
(* Text is a sequence of tokens.  A JavaScript string is a sequence of     *)
(* one-character strings (Str); SQL text is a sequence of token records,   *)
(* where a positional placeholder $n is the token [t |-> "ph", n |-> n].   *)
(* A JavaScript value is a record [kind, keys, items]: a scalar has one    *)
(* item, an array has its elements as items, an object has its property    *)
(* names in keys and the property values in items.                         *)
(***************************************************************************)
EXTENDS Integers, Sequences, FiniteSets, TLC

VARIABLES
    conditions,      \* FilterConditionBuilder.conditions
    values,          \* FilterConditionBuilder.values
    paramIndex,      \* FilterConditionBuilder.paramIndex
    binds,           \* history: per emitted fragment, the values it bound
    operationCache,  \* FilterOperations.operationCache (static)
    lastCall,        \* history: the last builder call, its input and outcome
    joins,           \* QueryBuilder.joins
    withClauses,     \* QueryBuilder.withClauses
    queryCache,      \* QueryBuilder.queryCache
    lastQuery,       \* history: the last QueryBuilder call and its result
    dateRangeCache,  \* DateFilterUtils.dateRangeCache (static)
    lastUtil         \* history: the last utility call and its result

vars == <<conditions, values, paramIndex, binds, operationCache, lastCall,
          joins, withClauses, queryCache, lastQuery, dateRangeCache, lastUtil>>

fbVars == <<conditions, values, paramIndex, binds, operationCache, lastCall>>

utilVars == <<dateRangeCache, lastUtil>>

\* what a FilterConditionBuilder call leaves alone
qbVars == <<joins, withClauses, queryCache, lastQuery, dateRangeCache, lastUtil>>

----------------------------------------------------------------------------
(* Bounds of the exploration *)

\* calls are made on a builder that holds fewer fragments than this
MaxConds == 2

\* keys of a queryParams map beside the padding keys
MaxKeys == 2

\* keys of a queryParams map built to exercise the grouping by operator
MaxGroupKeys == 3

\* joins and with clauses a QueryBuilder of the model holds at most
MaxClauses == 1

\* largest number of padding keys over the cap of 50
MaxOver == 1

\* entries the query cache may hold before the model stops adding new keys
MaxCache == 2

\* columns of a result row handed to the response mapper
MaxColumns == 2

\* largest row count and offset handed to the pagination builder
MaxRows == 7

\* largest page size handed to the pagination builder
MaxLimit == 3

----------------------------------------------------------------------------
(* Sequences and strings *)

RECURSIVE Concat(_)
Concat(ss) ==
    IF ss = <<>> THEN <<>> ELSE Head(ss) \o Concat(Tail(ss))

RECURSIVE JoinWith(_, _)
JoinWith(ss, sep) ==
    IF ss = <<>> THEN <<>>
    ELSE IF Len(ss) = 1 THEN Head(ss)
    ELSE Head(ss) \o sep \o JoinWith(Tail(ss), sep)

Range(s) == {s[i] : i \in 1..Len(s)}

Includes(s, x) == \E i \in 1..Len(s) : s[i] = x

\* index of the first element of s that satisfies nothing but equality to x
IndexOf(s, x) == CHOOSE i \in 1..Len(s) : s[i] = x /\ \A j \in 1..(i-1) : s[j] # x

\* String.prototype.split(sep) for a one-character separator
RECURSIVE SplitFrom(_, _, _)
SplitFrom(s, sep, cur) ==
    IF s = <<>> THEN <<cur>>
    ELSE IF Head(s) = sep THEN <<cur>> \o SplitFrom(Tail(s), sep, <<>>)
    ELSE SplitFrom(Tail(s), sep, Append(cur, Head(s)))

Split(s, sep) == SplitFrom(s, sep, <<>>)

RECURSIVE TrimLeft(_)
TrimLeft(s) ==
    IF s # <<>> /\ Head(s) = " " THEN TrimLeft(Tail(s)) ELSE s

RECURSIVE TrimRight(_)
TrimRight(s) ==
    IF s # <<>> /\ s[Len(s)] = " " THEN TrimRight(SubSeq(s, 1, Len(s) - 1)) ELSE s

\* String.prototype.trim
Trim(s) == TrimRight(TrimLeft(s))

----------------------------------------------------------------------------
(* JavaScript values *)

Scalar(k, s) == [kind |-> k, keys |-> <<>>, items |-> <<s>>]

StrV(s)   == Scalar("str", s)
NumV(s)   == Scalar("num", s)
BoolV(b)  == Scalar("bool", IF b THEN <<"t","r","u","e">> ELSE <<"f","a","l","s","e">>)
NullV     == [kind |-> "null", keys |-> <<>>, items |-> <<>>]
Undefined == [kind |-> "undefined", keys |-> <<>>, items |-> <<>>]
\* an array of scalars; each item is itself a value
ArrV(vs)  == [kind |-> "arr", keys |-> <<>>, items |-> vs]
\* an object: property names ks, property values vs
ObjV(ks, vs) == [kind |-> "obj", keys |-> ks, items |-> vs]

IsString(v) == v.kind = "str"
IsArray(v)  == v.kind = "arr"
IsObject(v) == v.kind = "obj"
IsNullish(v) == v.kind \in {"null", "undefined"}

\* the characters of a string value
Chars(v) == v.items[1]

\* property access value[name] on an object; undefined when absent
Prop(v, name) ==
    IF IsObject(v) /\ Includes(v.keys, name)
    THEN v.items[IndexOf(v.keys, name)]
    ELSE Undefined

\* indexed access value[i] (zero-based): an array element or a string character
At(v, i) ==
    IF IsArray(v) /\ i + 1 <= Len(v.items) THEN v.items[i + 1]
    ELSE IF IsString(v) /\ i + 1 <= Len(Chars(v)) THEN StrV(<<Chars(v)[i + 1]>>)
    ELSE Undefined

\* JavaScript truthiness
Truthy(v) ==
    CASE v.kind \in {"null", "undefined"} -> FALSE
      [] v.kind = "str"  -> Chars(v) # <<>>
      [] v.kind = "num"  -> Chars(v) # <<"0">>
      [] v.kind = "bool" -> Chars(v) = <<"t","r","u","e">>
      [] OTHER -> TRUE

\* a || b
OrElse(a, b) == IF Truthy(a) THEN a ELSE b

\* String(v), as a template literal `${v}` computes it
RECURSIVE ToStr(_)
ToStr(v) ==
    CASE v.kind = "null" -> <<"n","u","l","l">>
      [] v.kind = "undefined" -> <<"u","n","d","e","f","i","n","e","d">>
      [] v.kind = "arr" ->
            JoinWith([i \in 1..Len(v.items) |->
                         IF IsNullish(v.items[i]) THEN <<>> ELSE ToStr(v.items[i])],
                     <<",">>)
      [] v.kind = "obj" -> <<"[object Object]">>
      [] OTHER -> Chars(v)

\* JSON.stringify(v)
RECURSIVE Stringify(_)
Stringify(v) ==
    CASE v.kind = "str" -> <<"\"">> \o Chars(v) \o <<"\"">>
      [] v.kind = "arr" ->
            <<"[">> \o JoinWith([i \in 1..Len(v.items) |-> Stringify(v.items[i])], <<",">>)
                    \o <<"]">>
      [] v.kind = "obj" ->
            <<"{">> \o JoinWith([i \in 1..Len(v.items) |->
                                    <<"\"", v.keys[i], "\"", ":">> \o Stringify(v.items[i])],
                                <<",">>)
                    \o <<"}">>
      [] v.kind = "undefined" -> <<"u","n","d","e","f","i","n","e","d">>
      [] OTHER -> ToStr(v)

----------------------------------------------------------------------------
(* SQL text *)

Txt(s) == [t |-> "txt", s |-> s, n |-> 0]

\* the placeholder $n
Ph(n) == [t |-> "ph", s |-> "$", n |-> n]

\* the tokens of a string spliced into SQL text
TxtSeq(s) == [i \in 1..Len(s) |-> Txt(s[i])]

\* the placeholder numbers of a text, left to right
Placeholders(text) ==
    LET phs == SelectSeq(text, LAMBDA tok : tok.t = "ph")
    IN  [i \in 1..Len(phs) |-> phs[i].n]

----------------------------------------------------------------------------
(* Numbers and dates *)

DigitChars == <<"0","1","2","3","4","5","6","7","8","9">>

IsDigit(c) == Includes(DigitChars, c)

DigitVal(c) == IndexOf(DigitChars, c) - 1

NaN == [nan |-> TRUE, n |-> 0]

Num(n) == [nan |-> FALSE, n |-> n]

RECURSIVE DigitsValue(_, _)
DigitsValue(s, acc) ==
    IF s = <<>> THEN acc ELSE DigitsValue(Tail(s), 10 * acc + DigitVal(Head(s)))

RECURSIVE LeadingDigits(_)
LeadingDigits(s) ==
    IF s # <<>> /\ IsDigit(Head(s)) THEN <<Head(s)>> \o LeadingDigits(Tail(s)) ELSE <<>>

\* Number(s) for a string of the model's alphabet: decimal digits or NaN
NumberOfStr(s) ==
    LET t == Trim(s)
    IN  IF t = <<>> THEN Num(0)
        ELSE IF \A i \in 1..Len(t) : IsDigit(t[i]) THEN Num(DigitsValue(t, 0))
        ELSE NaN

\* parseInt(v): the leading decimal digits of String(v)
ParseInt(v) ==
    LET d == LeadingDigits(TrimLeft(ToStr(v)))
    IN  IF d = <<>> THEN NaN ELSE Num(DigitsValue(d, 0))

IsLeap(y) == (y % 4 = 0 /\ y % 100 # 0) \/ y % 400 = 0

DaysInMonth(y, m) ==
    CASE m \in {4, 6, 9, 11} -> 30
      [] m = 2 -> IF IsLeap(y) THEN 29 ELSE 28
      [] OTHER -> 31

\* zero-padded decimal digits of n, w characters wide
RECURSIVE PadDigits(_, _)
PadDigits(n, w) ==
    IF w = 0 THEN <<>> ELSE PadDigits(n \div 10, w - 1) \o <<DigitChars[(n % 10) + 1]>>

\* Date.prototype.toISOString of a UTC civil time
ISOString(y, m, d, hh, mi, ss, ms) ==
    PadDigits(y, 4) \o <<"-">> \o PadDigits(m, 2) \o <<"-">> \o PadDigits(d, 2) \o <<"T">>
    \o PadDigits(hh, 2) \o <<":">> \o PadDigits(mi, 2) \o <<":">> \o PadDigits(ss, 2)
    \o <<".">> \o PadDigits(ms, 3) \o <<"Z">>

\* new Date(year, monthIndex, day, ...): month and day 0 overflow are normalised
NormalDate(y, mIdx, d) ==
    LET y1 == y + (mIdx \div 12)
        m1 == (mIdx % 12) + 1
    IN  IF d >= 1 THEN [y |-> y1, m |-> m1, d |-> d]
        ELSE LET py == IF m1 = 1 THEN y1 - 1 ELSE y1
                 pm == IF m1 = 1 THEN 12 ELSE m1 - 1
             IN  [y |-> py, m |-> pm, d |-> DaysInMonth(py, pm)]

PrevDay(dt) ==
    IF dt.d > 1 THEN [dt EXCEPT !.d = dt.d - 1]
    ELSE LET py == IF dt.m = 1 THEN dt.y - 1 ELSE dt.y
             pm == IF dt.m = 1 THEN 12 ELSE dt.m - 1
         IN  [y |-> py, m |-> pm, d |-> DaysInMonth(py, pm)]

NextDay(dt) ==
    IF dt.d < DaysInMonth(dt.y, dt.m) THEN [dt EXCEPT !.d = dt.d + 1]
    ELSE IF dt.m = 12 THEN [y |-> dt.y + 1, m |-> 1, d |-> 1]
    ELSE [y |-> dt.y, m |-> dt.m + 1, d |-> 1]

\* the ISO string of local civil time (dt, minute of day, ss, ms) in a zone
\* tz minutes east of UTC
LocalToISO(dt, minuteOfDay, ss, ms, tz) ==
    LET u  == minuteOfDay - tz
        du == IF u < 0 THEN PrevDay(dt) ELSE IF u >= 1440 THEN NextDay(dt) ELSE dt
        um == IF u < 0 THEN u + 1440 ELSE IF u >= 1440 THEN u - 1440 ELSE u
    IN  ISOString(du.y, du.m, du.d, um \div 60, um % 60, ss, ms)

\* the year the Date constructor uses: 0..99 mean 1900..1999
DateYear(y) == IF y >= 0 /\ y <= 99 THEN 1900 + y ELSE y

\* DateFilterUtils.getMonthRange; err is "RangeError" for an invalid date
getMonthRange(year, month, tz) ==
    IF year.nan \/ month.nan THEN [err |-> "RangeError", start |-> <<>>, end |-> <<>>]
    ELSE [err   |-> "none",
          start |-> LocalToISO(NormalDate(DateYear(year.n), month.n - 1, 1), 0, 0, 0, tz),
          end   |-> LocalToISO(NormalDate(DateYear(year.n), month.n, 0), 1439, 59, 999, tz)]

\* DateFilterUtils.getYearRange
getYearRange(year, tz) ==
    IF year.nan THEN [err |-> "RangeError", start |-> <<>>, end |-> <<>>]
    ELSE [err   |-> "none",
          start |-> LocalToISO(NormalDate(DateYear(year.n), 0, 1), 0, 0, 0, tz),
          end   |-> LocalToISO(NormalDate(DateYear(year.n), 11, 31), 1439, 59, 999, tz)]

\* DateFilterUtils.parseDateRange; ('start' in null) is a TypeError
parseDateRange(value) ==
    IF IsString(value) /\ Len(Split(Chars(value), ",")) = 2
    THEN [err |-> "none",
          start |-> StrV(Trim(Split(Chars(value), ",")[1])),
          end   |-> StrV(Trim(Split(Chars(value), ",")[2]))]
    ELSE IF value.kind = "null"
    THEN [err |-> "TypeError", start |-> Undefined, end |-> Undefined]
    ELSE IF IsObject(value) /\ Includes(value.keys, "start") /\ Includes(value.keys, "end")
    THEN [err |-> "none", start |-> Prop(value, "start"), end |-> Prop(value, "end")]
    ELSE [err |-> "InvalidRange", start |-> Undefined, end |-> Undefined]

----------------------------------------------------------------------------
(* The field-mapping registry the builders are constructed with.  A logical *)
(* field name and a parameter key are sequences of the segments that "_"    *)
(* separates: <<"name", "like">> is the key name_like.  A physical          *)
(* expression (dbField) is a sequence of SQL words.                         *)

Mapping(dbField, type) == [dbField |-> dbField, type |-> type]

fieldMappings ==
    (<<"id">>            :> Mapping(<<"t", ".", "id">>, "uuid"))
 @@ (<<"name">>          :> Mapping(<<"t", ".", "name">>, "string"))
 @@ (<<"isActive">>      :> Mapping(<<"t", ".", "is_active">>, "boolean"))
 @@ (<<"createdAt">>     :> Mapping(<<"t", ".", "created_at">>, "timestamp"))
 @@ (<<"status">>        :> Mapping(<<"CASE", " ", "WHEN t.is_active THEN 'ACTIVE' ELSE 'INACTIVE' END",
                                      " AS ", "status">>, "string"))
 @@ (<<"createdByUser">> :> Mapping(<<"t", ".", "created_by">>, "uuid"))
 @@ (<<"total">>         :> Mapping(<<"(", "SELECT", " ", "COUNT(1) FROM o WHERE o.t_id = t.id", ")">>,
                                    "number"))
 @@ (<<"tags">>          :> Mapping(<<"t", ".", "tags">>, "array"))
 @@ (<<"metadata">>      :> Mapping(<<"t", ".", "metadata">>, "jsonb"))
 @@ (<<"ftsVector">>     :> Mapping(<<"to_tsvector('english', t.name)">>, "tsvector"))
 @@ (<<"birthday">>      :> Mapping(<<"t", ".", "birthday">>, "date"))
 @@ (<<"bio">>           :> Mapping(<<"t", ".", "bio">>, "text"))
 @@ (<<"created", "at">> :> Mapping(<<"t", ".", "created_at">>, "timestamp"))
 @@ (<<"emailSubject">>  :> Mapping(<<"e", ".", "subject">>, "string"))

\* the logical name a string spells: its words between the "_" characters
\* (the empty name when the string is not spelt word by word)
NameOfString(s) ==
    LET parts == Split(s, "_")
    IN  IF \A i \in 1..Len(parts) : Len(parts[i]) <= 1
        THEN [i \in 1..Len(parts) |-> IF parts[i] = <<>> THEN "" ELSE parts[i][1]]
        ELSE <<>>

\* Map.prototype.has on the registry
HasField(field) == field \in DOMAIN fieldMappings

\* the custom transformers the stand-alone builder is constructed with,
\* keyed by physical expression
customTransformers == (<<"e", ".", "subject">> :> "lowerTrim")

\* the custom transformers buildSelectQuery constructs its builder with
selectTransformers == (<<"emailSubject">> :> "lowerTrim")

----------------------------------------------------------------------------
(* The operator registry *)

Op(operator, sqlOperator, valueTransformer) ==
    [operator |-> operator, sqlOperator |-> sqlOperator, valueTransformer |-> valueTransformer]

\* the table; valueTransformer names the arrow function of the entry,
\* "none" when the entry has none
FILTER_OPERATIONS ==
    <<
       Op("eq", "=", "none"),
       Op("ne", "!=", "none"),
       Op("gt", ">", "none"),
       Op("gte", ">=", "none"),
       Op("lt", "<", "none"),
       Op("lte", "<=", "none"),
       Op("like", "ILIKE", "wrapBoth"),
       Op("startsWith", "ILIKE", "appendPct"),
       Op("endsWith", "ILIKE", "prependPct"),
       Op("in", "IN", "none"),
       Op("notIn", "NOT IN", "none"),
       Op("between", "BETWEEN", "none"),
       Op("notBetween", "NOT BETWEEN", "none"),
       Op("isNull", "IS NULL", "none"),
       Op("isNotNull", "IS NOT NULL", "none"),
       Op("dateRange", "BETWEEN", "none"),
       Op("monthYear", "BETWEEN", "none"),
       Op("year", "=", "none"),
       Op("contains", "LIKE", "wrapBoth"),
       Op("notContains", "NOT LIKE", "wrapBoth"),
       Op("regexp", "~", "none"),
       Op("notRegexp", "!~", "none"),
       Op("iRegexp", "~*", "none"),
       Op("notIRegexp", "!~*", "none"),
       Op("any", "= ANY", "none"),
       Op("all", "= ALL", "none"),
       Op("is", "IS", "none"),
       Op("not", "IS NOT", "none"),
       Op("jsonContains", "@>", "none"),
       Op("jsonContained", "<@", "none"),
       Op("jsonKeyExists", "?", "identity"),
       Op("jsonAnyKeyExists", "?|", "identity"),
       Op("jsonAllKeysExist", "?&", "identity"),
       Op("jsonPath", "#>>", "none"),
       Op("jsonPathText", "#>", "none"),
       Op("jsonEq", "#>>", "pathEquals"),
       Op("overlap", "&&", "none"),
       Op("contained", "<@", "none"),
       Op("containsArray", "@>", "none"),
       Op("fts", "@@", "quote"),
       Op("ftsPlain", "@@ plainto_tsquery", "quote"),
       Op("ftsPhrase", "@@ phraseto_tsquery", "quote"),
       Op("ftsWeb", "@@ websearch_to_tsquery", "quote"),
       Op("ciEq", "ILIKE", "none"),
       Op("ciNe", "NOT ILIKE", "none"),
       Op("col", "=", "none"),
       Op("isTrue", "=", "constTrue"),
       Op("isFalse", "=", "constFalse"),
       Op("distinctFrom", "IS DISTINCT FROM", "none"),
       Op("notDistinctFrom", "IS NOT DISTINCT FROM", "none")
    >>

OperatorNames == {FILTER_OPERATIONS[i].operator : i \in 1..Len(FILTER_OPERATIONS)}

\* FilterOperations.operations: the Map built from the table (a later entry
\* of the same name would replace an earlier one)
operations ==
    [name \in OperatorNames |->
        LET last == CHOOSE i \in 1..Len(FILTER_OPERATIONS) :
                        /\ FILTER_OPERATIONS[i].operator = name
                        /\ \A j \in (i+1)..Len(FILTER_OPERATIONS) :
                               FILTER_OPERATIONS[j].operator # name
        IN  FILTER_OPERATIONS[last]]

NoOperation == Op("", "", "none")

\* FilterOperationsGet that answers an unregistered name with the first entry
FilterOperationsGetFallback(cache, operator) ==
    IF operator \in DOMAIN cache
    THEN [err |-> "none", operation |-> cache[operator], cache |-> cache]
    ELSE IF operator \notin DOMAIN operations
    THEN [err |-> "none", operation |-> FILTER_OPERATIONS[1], cache |-> cache]
    ELSE [err |-> "none", operation |-> operations[operator],
          cache |-> (operator :> operations[operator]) @@ cache]

\* FilterOperations.get(operator) against a cache: the operation returned (or
\* the error raised) and the cache afterwards
FilterOperationsGet(cache, operator) ==
    IF operator \in DOMAIN cache
    THEN [err |-> "none", operation |-> cache[operator], cache |-> cache]
    ELSE IF operator \notin DOMAIN operations
    THEN [err |-> "UnsupportedOperator", operation |-> NoOperation, cache |-> cache]
    ELSE [err |-> "none", operation |-> operations[operator],
          cache |-> (operator :> operations[operator]) @@ cache]

Lower(c) ==
    CASE c = "A" -> "a" [] c = "B" -> "b" [] c = "X" -> "x" [] OTHER -> c

\* transformers that all return the value as it is
ApplyTransformerUnchanged(name, value) == [err |-> "none", v |-> value]

\* the value transformers: the arrow functions of the table and the custom
\* (value) => value.toLowerCase().trim()
ApplyTransformer(name, value) ==
    CASE name = "wrapBoth"   -> [err |-> "none", v |-> StrV(<<"%">> \o ToStr(value) \o <<"%">>)]
      [] name = "appendPct"  -> [err |-> "none", v |-> StrV(ToStr(value) \o <<"%">>)]
      [] name = "prependPct" -> [err |-> "none", v |-> StrV(<<"%">> \o ToStr(value))]
      [] name = "identity"   -> [err |-> "none", v |-> value]
      [] name = "quote"      -> [err |-> "none", v |-> StrV(<<"'">> \o ToStr(value) \o <<"'">>)]
      [] name = "constTrue"  -> [err |-> "none", v |-> BoolV(TRUE)]
      [] name = "constFalse" -> [err |-> "none", v |-> BoolV(FALSE)]
      [] name = "pathEquals" ->
            \* ([path, val]) => `${path} = '${val}'`: destructures an iterable
            IF IsArray(value) \/ IsString(value)
            THEN [err |-> "none",
                  v |-> StrV(ToStr(At(value, 0)) \o <<" ", "=", " ", "'">>
                             \o ToStr(At(value, 1)) \o <<"'">>)]
            ELSE [err |-> "TypeError", v |-> Undefined]
      [] name = "lowerTrim"  ->
            IF IsString(value)
            THEN [err |-> "none",
                  v |-> StrV(Trim([i \in 1..Len(Chars(value)) |-> Lower(Chars(value)[i])]))]
            ELSE [err |-> "TypeError", v |-> Undefined]
      [] OTHER -> [err |-> "none", v |-> value]

\* a transform that ignores the operation's valueTransformer
OperationTransformIdentity(operation, value) == [err |-> "none", v |-> value]

\* FilterOperation.transform
OperationTransform(operation, value) ==
    IF operation.valueTransformer # "none"
    THEN ApplyTransformer(operation.valueTransformer, value)
    ELSE [err |-> "none", v |-> value]

----------------------------------------------------------------------------
(* FilterConditionBuilder.  A builder b is the record of its fields, with   *)
(* the static operation cache and the error the call in progress raised     *)
(* ("none" while it has raised nothing).                                    *)

\* the cap set by the constructor
maxConditions == 50

NewBuilder(cache) ==
    [err |-> "none", conditions |-> <<>>, values |-> <<>>, paramIndex |-> 1,
     binds |-> <<>>, cache |-> cache]

Raise(b, e) == [b EXCEPT !.err = e]

\* Emit with the index advanced by one whatever the fragment bound
EmitAdvanceOne(b, fragment, args, step) ==
    [b EXCEPT !.conditions = Append(@, fragment),
              !.values     = @ \o args,
              !.paramIndex = @ + 1,
              !.binds      = Append(@, args)]

\* conditions.push(fragment); values.push(...args); paramIndex += step
Emit(b, fragment, args, step) ==
    [b EXCEPT !.conditions = Append(@, fragment),
              !.values     = @ \o args,
              !.paramIndex = @ + step,
              !.binds      = Append(@, args)]

getCastSuffix(fieldType) ==
    CASE fieldType = "date"      -> <<Txt("::date")>>
      [] fieldType = "timestamp" -> <<Txt("::timestamp")>>
      [] fieldType = "jsonb"     -> <<Txt("::jsonb")>>
      [] fieldType = "array"     -> <<Txt("::text[]")>>
      [] OTHER -> <<>>

\* a default operator that ignores the type
getDefaultOperatorEq(fieldType) == "eq"

getDefaultOperator(fieldType) ==
    CASE fieldType = "string"    -> "like"
      [] fieldType = "boolean"   -> "isTrue"
      [] fieldType \in {"uuid", "number"} -> "eq"
      [] fieldType \in {"date", "timestamp"} -> "dateRange"
      [] fieldType = "jsonb"     -> "jsonContains"
      [] fieldType = "array"     -> "containsArray"
      [] fieldType = "tsvector"  -> "fts"
      [] OTHER -> "eq"

\* CoerceList without the trim of the parts
CoerceListUntrimmed(value) ==
    IF IsArray(value) THEN [err |-> "none", list |-> value.items]
    ELSE IF IsString(value)
    THEN [err |-> "none",
          list |-> LET parts == Split(Chars(value), ",")
                   IN  [i \in 1..Len(parts) |-> StrV(parts[i])]]
    ELSE [err |-> "TypeError", list |-> <<>>]

\* Array.isArray(value) ? value : value.split(',').map(v => v.trim())
CoerceList(value) ==
    IF IsArray(value) THEN [err |-> "none", list |-> value.items]
    ELSE IF IsString(value)
    THEN [err |-> "none",
          list |-> LET parts == Split(Chars(value), ",")
                   IN  [i \in 1..Len(parts) |-> StrV(Trim(parts[i]))]]
    ELSE [err |-> "TypeError", list |-> <<>>]

\* the placeholders $n, $n+1, ... $n+k-1 joined by ', '
PlaceholderList(n, k) ==
    JoinWith([i \in 1..k |-> <<Ph(n + i - 1)>>], <<Txt(", ")>>)

\* '<field> BETWEEN $n AND $n+1' with the given operator text
RangeFragment(dbField, opText, n) ==
    TxtSeq(dbField) \o <<Txt(" "), Txt(opText), Txt(" "), Ph(n), Txt(" AND "), Ph(n + 1)>>

\* the operator's own transformer, whatever the custom transformers
TransformerOfOperation(transformers, dbField, operation) == operation.valueTransformer

\* this.customTransformers.get(dbField) || operation.valueTransformer
TransformerOf(transformers, dbField, operation) ==
    IF dbField \in DOMAIN transformers THEN transformers[dbField]
    ELSE operation.valueTransformer

\* buildCondition: tz is the zone of the process, minutes east of UTC
buildCondition(b, transformers, dbField, operation, value, fieldType, tz) ==
    LET transformer == TransformerOf(transformers, dbField, operation)
        op == operation.operator
        sql == operation.sqlOperator
        f == TxtSeq(dbField)
        n == b.paramIndex
    IN
    CASE op \in {"isNull", "isNotNull"} ->
            Emit(b, f \o <<Txt(" "), Txt(sql)>>, <<>>, 0)
      [] op \in {"in", "notIn"} ->
            LET inValues == CoerceList(value)
                k == Len(inValues.list)
            IN  IF inValues.err # "none" THEN Raise(b, inValues.err)
                ELSE Emit(b, f \o <<Txt(" "), Txt(sql), Txt(" (")>> \o PlaceholderList(n, k)
                               \o <<Txt(")")>>,
                          inValues.list, k)
      [] op \in {"between", "notBetween", "dateRange"} ->
            LET range == IF op = "dateRange" THEN parseDateRange(value)
                         ELSE IF IsNullish(value)
                         THEN [err |-> "TypeError", start |-> Undefined, end |-> Undefined]
                         ELSE [err   |-> "none",
                               start |-> OrElse(Prop(value, "start"), At(value, 0)),
                               end   |-> OrElse(Prop(value, "end"), At(value, 1))]
            IN  IF range.err # "none" THEN Raise(b, range.err)
                ELSE Emit(b, RangeFragment(dbField, sql, n), <<range.start, range.end>>, 2)
      [] op = "monthYear" ->
            IF ~IsString(value) THEN Raise(b, "TypeError")
            ELSE LET parts == Split(Chars(value), "-")
                     year  == NumberOfStr(parts[1])
                     month == IF Len(parts) >= 2 THEN NumberOfStr(parts[2]) ELSE NaN
                     monthRange == getMonthRange(year, month, tz)
                 IN  IF monthRange.err # "none" THEN Raise(b, monthRange.err)
                     ELSE Emit(b, RangeFragment(dbField, "BETWEEN", n),
                               <<StrV(monthRange.start), StrV(monthRange.end)>>, 2)
      [] op = "year" ->
            LET yearRange == getYearRange(ParseInt(value), tz)
            IN  IF yearRange.err # "none" THEN Raise(b, yearRange.err)
                ELSE Emit(b, RangeFragment(dbField, "BETWEEN", n),
                          <<StrV(yearRange.start), StrV(yearRange.end)>>, 2)
      [] op \in {"any", "all"} ->
            LET arrayValues == CoerceList(value)
            IN  IF arrayValues.err # "none" THEN Raise(b, arrayValues.err)
                ELSE Emit(b, f \o <<Txt(" "), Txt(sql), Txt(" ("), Ph(n), Txt(")")>>,
                          <<ArrV(arrayValues.list)>>, 1)
      [] op = "col" ->
            LET other == IF IsString(value) THEN NameOfString(Chars(value)) ELSE <<>>
                colField == IF IsString(value) /\ HasField(other)
                            THEN fieldMappings[other].dbField
                            ELSE ToStr(value)
            IN  Emit(b, f \o <<Txt(" "), Txt(sql), Txt(" ")>> \o TxtSeq(colField), <<>>, 0)
      [] op \in {"jsonContains", "jsonContained"} ->
            LET jsonValue == IF IsString(value) \/ value.kind = "undefined" THEN value
                             ELSE StrV(Stringify(value))
            IN  Emit(b, f \o <<Txt(" "), Txt(sql), Txt(" "), Ph(n), Txt("::jsonb")>>,
                     <<jsonValue>>, 1)
      [] op \in {"jsonKeyExists", "jsonAnyKeyExists", "jsonAllKeysExist"} ->
            LET keyValue == IF IsArray(value) THEN value ELSE ArrV(<<value>>)
            IN  Emit(b, f \o <<Txt(" "), Txt(sql), Txt(" "), Ph(n)>>, <<keyValue>>, 1)
      [] op = "jsonPath" ->
            IF IsNullish(value) THEN Raise(b, "TypeError")
            ELSE Emit(b, f \o <<Txt(sql), Txt(" "), Ph(n), Txt(" = "), Ph(n + 1)>>,
                      <<Prop(value, "jsonPath"), Prop(value, "value")>>, 2)
      [] op = "jsonPathText" ->
            Emit(b, f \o <<Txt(sql), Txt(" "), Ph(n), Txt("::jsonb")>>, <<value>>, 1)
      [] op = "jsonEq" ->
            IF IsNullish(value) THEN Raise(b, "TypeError")
            ELSE LET pair == IF IsArray(value) THEN <<At(value, 0), At(value, 1)>>
                             ELSE <<Prop(value, "path"), Prop(value, "value")>>
                 IN  Emit(b, f \o <<Txt(sql), Txt(" "), Ph(n), Txt(" = "), Ph(n + 1)>>, pair, 2)
      [] op \in {"fts", "ftsPlain", "ftsPhrase", "ftsWeb"} ->
            LET tsquery == IF transformer # "none" THEN ApplyTransformer(transformer, value)
                           ELSE [err |-> "none", v |-> StrV(<<"'">> \o ToStr(value) \o <<"'">>)]
            IN  IF tsquery.err # "none" THEN Raise(b, tsquery.err)
                ELSE Emit(b, f \o <<Txt(" "), Txt(sql), Txt("(")>> \o TxtSeq(ToStr(tsquery.v))
                               \o <<Txt(")")>>,
                          <<value>>, 1)
      [] op \in {"ciEq", "ciNe"} ->
            LET ciValue == IF transformer # "none" THEN ApplyTransformer(transformer, value)
                           ELSE [err |-> "none", v |-> value]
            IN  IF ciValue.err # "none" THEN Raise(b, ciValue.err)
                ELSE Emit(b, f \o <<Txt(" "), Txt(sql), Txt(" "), Ph(n)>>, <<ciValue.v>>, 1)
      [] op \in {"isTrue", "isFalse"} ->
            Emit(b, f \o <<Txt(" "), Txt(sql), Txt(" "), Ph(n)>>,
                 <<OperationTransform(operation, Undefined).v>>, 1)
      [] op \in {"distinctFrom", "notDistinctFrom"} ->
            Emit(b, f \o <<Txt(" "), Txt(sql), Txt(" "), Ph(n)>>, <<value>>, 1)
      [] OTHER ->
            LET transformedValue == IF transformer # "none"
                                    THEN ApplyTransformer(transformer, value)
                                    ELSE OperationTransform(operation, value)
            IN  IF transformedValue.err # "none" THEN Raise(b, transformedValue.err)
                ELSE Emit(b, f \o getCastSuffix(fieldType)
                               \o <<Txt(" "), Txt(sql), Txt(" "), Ph(n)>>,
                          <<transformedValue.v>>, 1)

\* IsComputed by the two names alone
IsComputedByName(field) == field \in {<<"status">>, <<"createdByUser">>}

\* a field that addCondition never filters on
IsComputed(field) ==
    \/ field \in {<<"status">>, <<"createdByUser">>}
    \/ Includes(fieldMappings[field].dbField, "CASE")
    \/ Includes(fieldMappings[field].dbField, "SELECT")

\* addCondition that skips an unregistered field instead of raising
addConditionLenient(b, transformers, field, operator, value, tz) ==
    IF ~HasField(field) THEN b
    ELSE IF IsComputed(field) THEN b
    ELSE LET got == FilterOperationsGet(b.cache, operator)
         IN  IF got.err # "none" THEN Raise(b, got.err)
             ELSE buildCondition([b EXCEPT !.cache = got.cache], transformers,
                                 fieldMappings[field].dbField, got.operation, value,
                                 fieldMappings[field].type, tz)

\* addCondition(field, operator, value)
addCondition(b, transformers, field, operator, value, tz) ==
    IF ~HasField(field) THEN Raise(b, "UnknownField")
    ELSE IF IsComputed(field) THEN b
    ELSE LET got == FilterOperationsGet(b.cache, operator)
         IN  IF got.err # "none" THEN Raise(b, got.err)
             ELSE buildCondition([b EXCEPT !.cache = got.cache], transformers,
                                 fieldMappings[field].dbField, got.operation, value,
                                 fieldMappings[field].type, tz)

\* build() that separates the fragments by commas
buildCommas(b) ==
    [text   |-> IF Len(b.conditions) > 0
                THEN <<Txt("WHERE ")>> \o JoinWith(b.conditions, <<Txt(", ")>>)
                ELSE <<>>,
     values |-> b.values]

\* build()
build(b) ==
    [text   |-> IF Len(b.conditions) > 0
                THEN <<Txt("WHERE ")>> \o JoinWith(b.conditions, <<Txt(" AND ")>>)
                ELSE <<>>,
     values |-> b.values]

----------------------------------------------------------------------------
(* addRequiredConditions and addDynamicFilters.  A map (requiredFilters,    *)
(* queryParams) is the sequence of its entries [key, value] in the order    *)
(* Object.entries yields them.  Both return the builder and the log of the  *)
(* addCondition calls they made (history, for the properties).              *)

Entry(key, value) == [key |-> key, value |-> value]

Snapshot(b) == [conditions |-> b.conditions, values |-> b.values, paramIndex |-> b.paramIndex]

\* the builder b2 an addCondition call returned, with the record of the call
\* appended to the log; idx is the position of the entry in the map
Logged(r, idx, field, operator, value, b2) ==
    [b   |-> b2,
     log |-> Append(r.log, [idx |-> idx, field |-> field, operator |-> operator,
                            value |-> value, err |-> b2.err,
                            before |-> Snapshot(r.b), after |-> Snapshot(b2)])]

\* one addCondition call, logged
LoggedCondition(r, transformers, idx, field, operator, value, tz) ==
    Logged(r, idx, field, operator, value,
           addCondition(r.b, transformers, field, operator, value, tz))

RECURSIVE RequiredFrom(_, _, _, _, _)
RequiredFrom(r, transformers, requiredFilters, i, tz) ==
    IF i > Len(requiredFilters) \/ r.b.err # "none" THEN r
    ELSE RequiredFrom(LoggedCondition(r, transformers, i, requiredFilters[i].key, "eq",
                                      requiredFilters[i].value, tz),
                      transformers, requiredFilters, i + 1, tz)

addRequiredConditions(b, transformers, requiredFilters, tz) ==
    RequiredFrom([b |-> b, log |-> <<>>], transformers, requiredFilters, 1, tz)

ReservedKeys == {<<"limit">>, <<"offset">>, <<"sort">>, <<"sortField">>, <<"fields">>}

shouldSkipParam(paramKey, paramValue, excludeFields) ==
    \/ IsNullish(paramValue)
    \/ (IsString(paramValue) /\ Chars(paramValue) = <<>>)
    \/ paramKey \in excludeFields
    \/ paramKey \in ReservedKeys

\* the segments of the model's keys that are not made of letters only
NonAlphaWords == {"", "v2", "2"}

\* paramKey.match(/^(.+)_([a-zA-Z]+)$/)
operatorMatch(paramKey) ==
    /\ Len(paramKey) >= 2
    /\ paramKey[Len(paramKey)] \notin NonAlphaWords
    /\ (Len(paramKey) > 2 \/ paramKey[1] # "")

\* GroupPush that never finds the group of the operator
GroupPushUngrouped(groupedFilters, operator, filter) ==
    Append(groupedFilters, [operator |-> operator, filters |-> <<filter>>])

\* groupedFilters.get(operator).push(filter), creating the group at the end
\* of the Map when the operator is new
GroupPush(groupedFilters, operator, filter) ==
    IF \E g \in 1..Len(groupedFilters) : groupedFilters[g].operator = operator
    THEN [g \in 1..Len(groupedFilters) |->
            IF groupedFilters[g].operator = operator
            THEN [groupedFilters[g] EXCEPT !.filters = Append(@, filter)]
            ELSE groupedFilters[g]]
    ELSE Append(groupedFilters, [operator |-> operator, filters |-> <<filter>>])

\* ScanFrom that raises only once the count has passed the cap
RECURSIVE ScanFromPastCap(_, _, _, _)
ScanFromPastCap(queryParams, excludeFields, i, loop) ==
    IF i > Len(queryParams) THEN [err |-> "none", groupedFilters |-> loop.groupedFilters]
    ELSE IF loop.conditionCount > maxConditions
    THEN [err |-> "TooManyConditions", groupedFilters |-> loop.groupedFilters]
    ELSE LET paramKey == queryParams[i].key
             paramValue == queryParams[i].value
         IN  IF shouldSkipParam(paramKey, paramValue, excludeFields)
             THEN ScanFromPastCap(queryParams, excludeFields, i + 1, loop)
             ELSE IF operatorMatch(paramKey)
             THEN ScanFromPastCap(queryParams, excludeFields, i + 1,
                      [groupedFilters |->
                          GroupPush(loop.groupedFilters, paramKey[Len(paramKey)],
                                    [idx |-> i,
                                     fieldName |-> SubSeq(paramKey, 1, Len(paramKey) - 1),
                                     paramValue |-> paramValue]),
                       conditionCount |-> loop.conditionCount + 1])
             ELSE IF HasField(paramKey)
             THEN ScanFromPastCap(queryParams, excludeFields, i + 1,
                      [groupedFilters |->
                          GroupPush(loop.groupedFilters,
                                    getDefaultOperator(fieldMappings[paramKey].type),
                                    [idx |-> i, fieldName |-> paramKey,
                                     paramValue |-> paramValue]),
                       conditionCount |-> loop.conditionCount + 1])
             ELSE ScanFromPastCap(queryParams, excludeFields, i + 1, loop)

\* the first loop of addDynamicFilters from entry i on; loop holds its locals
\* groupedFilters and conditionCount
RECURSIVE ScanFrom(_, _, _, _)
ScanFrom(queryParams, excludeFields, i, loop) ==
    IF i > Len(queryParams) THEN [err |-> "none", groupedFilters |-> loop.groupedFilters]
    ELSE IF loop.conditionCount >= maxConditions
    THEN [err |-> "TooManyConditions", groupedFilters |-> loop.groupedFilters]
    ELSE LET paramKey == queryParams[i].key
             paramValue == queryParams[i].value
         IN  IF shouldSkipParam(paramKey, paramValue, excludeFields)
             THEN ScanFrom(queryParams, excludeFields, i + 1, loop)
             ELSE IF operatorMatch(paramKey)
             THEN ScanFrom(queryParams, excludeFields, i + 1,
                      [groupedFilters |->
                          GroupPush(loop.groupedFilters, paramKey[Len(paramKey)],
                                    [idx |-> i,
                                     fieldName |-> SubSeq(paramKey, 1, Len(paramKey) - 1),
                                     paramValue |-> paramValue]),
                       conditionCount |-> loop.conditionCount + 1])
             ELSE IF HasField(paramKey)
             THEN ScanFrom(queryParams, excludeFields, i + 1,
                      [groupedFilters |->
                          GroupPush(loop.groupedFilters,
                                    getDefaultOperator(fieldMappings[paramKey].type),
                                    [idx |-> i, fieldName |-> paramKey,
                                     paramValue |-> paramValue]),
                       conditionCount |-> loop.conditionCount + 1])
             ELSE ScanFrom(queryParams, excludeFields, i + 1, loop)

\* the second loop of addDynamicFilters from filter j of group g on
RECURSIVE EmitGroupsFrom(_, _, _, _, _, _)
EmitGroupsFrom(r, transformers, groupedFilters, g, j, tz) ==
    IF g > Len(groupedFilters) \/ r.b.err # "none" THEN r
    ELSE IF j > Len(groupedFilters[g].filters)
    THEN EmitGroupsFrom(r, transformers, groupedFilters, g + 1, 1, tz)
    ELSE LET filter == groupedFilters[g].filters[j]
         IN  EmitGroupsFrom(LoggedCondition(r, transformers, filter.idx, filter.fieldName,
                                            groupedFilters[g].operator, filter.paramValue, tz),
                            transformers, groupedFilters, g, j + 1, tz)

\* the second loop, reached when the first one raised nothing
EmitGroups(b, transformers, tz, scan) ==
    IF scan.err # "none" THEN [b |-> Raise(b, scan.err), log |-> <<>>]
    ELSE EmitGroupsFrom([b |-> b, log |-> <<>>], transformers, scan.groupedFilters, 1, 1, tz)

addDynamicFilters(b, transformers, queryParams, excludeFields, tz) ==
    EmitGroups(b, transformers, tz,
               ScanFrom(queryParams, excludeFields, 1,
                        [groupedFilters |-> <<>>, conditionCount |-> 0]))

----------------------------------------------------------------------------
(* QueryBuilder.  An identifier, a join condition and a sub-query are       *)
(* strings: sequences of words and of the characters " ", "." and ",".      *)

\* the words that match [a-zA-Z_][a-zA-Z0-9_]* among those the model writes
IdentifierWords == {"public", "users", "u", "orders", "o", "recent", "_x1", "cnt"}

\* identifierRegex.test(part): a word that starts an identifier, followed by
\* words and digits
identifierRegexTest(part) ==
    /\ part # <<>>
    /\ part[1] \in IdentifierWords
    /\ \A i \in 2..Len(part) : part[i] \in IdentifierWords \cup Range(DigitChars)

\* identifier.split(/\s+/): a run of spaces separates once
SplitSpaces(s) ==
    LET parts == Split(s, " ")
        kept  == {i \in 1..Len(parts) : i = 1 \/ i = Len(parts) \/ parts[i] # <<>>}
        nth(k) == CHOOSE i \in kept : Cardinality({j \in kept : j < i}) = k - 1
    IN  [k \in 1..Cardinality(kept) |-> parts[nth(k)]]

\* sanitizeIdentifier(identifier): the identifier or the error it raises; an
\* absent or empty schema or alias is the empty string
sanitizeIdentifier(identifier) ==
    LET parts      == SplitSpaces(identifier)
        tablePart  == parts[1]
        alias      == IF Len(parts) > 1 THEN parts[2] ELSE <<>>
        tableParts == Split(tablePart, ".")
        schema     == IF Len(tableParts) > 1 THEN tableParts[1] ELSE <<>>
        table      == IF Len(tableParts) > 1 THEN tableParts[2] ELSE tableParts[1]
        sanitizedTable == IF schema # <<>> THEN schema \o <<".">> \o table ELSE table
    IN  IF schema # <<>> /\ ~identifierRegexTest(schema)
        THEN [err |-> "InvalidIdentifier", s |-> <<>>]
        ELSE IF ~identifierRegexTest(table)
        THEN [err |-> "InvalidIdentifier", s |-> <<>>]
        ELSE IF alias # <<>> /\ ~identifierRegexTest(alias)
        THEN [err |-> "InvalidIdentifier", s |-> <<>>]
        ELSE [err |-> "none",
              s |-> IF alias # <<>> THEN sanitizedTable \o <<" ">> \o alias
                    ELSE sanitizedTable]

\* the schema the QueryBuilder of the model is constructed with
schema == sanitizeIdentifier(<<"public">>).s

\* the logical names in the insertion order of the fieldMappings Map
fieldOrder ==
    <<<<"id">>, <<"name">>, <<"isActive">>, <<"createdAt">>, <<"status">>,
      <<"createdByUser">>, <<"total">>, <<"tags">>, <<"metadata">>, <<"ftsVector">>,
      <<"birthday">>, <<"bio">>, <<"created", "at">>, <<"emailSubject">>>>

\* fields.split(',').map(f => f.trim()) for a string, the array otherwise
normalizeFields(fields) ==
    IF IsString(fields)
    THEN LET parts == Split(Chars(fields), ",")
         IN  [i \in 1..Len(parts) |-> Trim(parts[i])]
    ELSE IF IsArray(fields) THEN [i \in 1..Len(fields.items) |-> Chars(fields.items[i])]
    ELSE <<>>

\* FieldValidator.validateFields(fields): the physical expressions to select
validateFields(fields) ==
    IF Len(fields) = 0
    THEN [err |-> "none",
          dbFields |-> [i \in 1..Len(fieldOrder) |-> fieldMappings[fieldOrder[i]].dbField]]
    ELSE LET known == SelectSeq(fields, LAMBDA f : HasField(NameOfString(f)))
             dbFields == [i \in 1..Len(known) |-> fieldMappings[NameOfString(known[i])].dbField]
             idField == fieldMappings[<<"id">>].dbField
         IN  IF Len(dbFields) = 0 THEN [err |-> "NoValidFields", dbFields |-> <<>>]
             ELSE IF ~Includes(dbFields, idField) /\ ~Includes(dbFields, <<"*">>)
             THEN [err |-> "none", dbFields |-> Append(dbFields, idField)]
             ELSE [err |-> "none", dbFields |-> dbFields]

\* validateSortField without the test for a computed expression
validateSortFieldAnyExpression(sortField) ==
    IF ~Truthy(sortField) THEN [err |-> "none", dbField |-> <<>>]
    ELSE IF ~HasField(NameOfString(Chars(sortField)))
    THEN [err |-> "InvalidSortField", dbField |-> <<>>]
    ELSE [err |-> "none", dbField |-> fieldMappings[NameOfString(Chars(sortField))].dbField]

\* FieldValidator.validateSortField(sortField): the physical expression to
\* sort by, empty for null
validateSortField(sortField) ==
    IF ~Truthy(sortField) THEN [err |-> "none", dbField |-> <<>>]
    ELSE IF ~HasField(NameOfString(Chars(sortField)))
    THEN [err |-> "InvalidSortField", dbField |-> <<>>]
    ELSE LET mapping == fieldMappings[NameOfString(Chars(sortField))]
         IN  IF Includes(mapping.dbField, "CASE") \/ Includes(mapping.dbField, "SELECT")
             THEN [err |-> "ComputedSortField", dbField |-> <<>>]
             ELSE [err |-> "none", dbField |-> mapping.dbField]

\* the name a key of a map spells, segments joined by "_"
KeyString(key) == JoinWith([i \in 1..Len(key) |-> <<key[i]>>], <<"_">>)

\* JSON.stringify of a requiredFilters map
StringifyMap(m) ==
    <<"{">> \o JoinWith([i \in 1..Len(m) |->
                            <<"\"">> \o KeyString(m[i].key) \o <<"\"", ":">>
                            \o Stringify(m[i].value)],
                        <<",">>)
            \o <<"}">>

\* String.prototype.toUpperCase on the directions the model passes
ToUpperCase(s) ==
    [i \in 1..Len(s) |-> CASE s[i] = "asc" -> "ASC" [] s[i] = "desc" -> "DESC" [] OTHER -> s[i]]

\* generateCacheKey(config)
generateCacheKey(config) ==
    LET table == sanitizeIdentifier(config.tableName)
    IN  [err |-> table.err,
         key |-> table.s \o <<":">> \o JoinWith(normalizeFields(config.fields), <<",">>)
                 \o <<":">> \o StringifyMap(config.requiredFilters)
                 \o <<":">> \o ToStr(config.sortField)
                 \o <<":">> \o config.sortDirection]

NoQueries == [selectQuery |-> [text |-> <<>>, values |-> <<>>],
              countQuery  |-> [text |-> <<>>, values |-> <<>>]]

\* what a call of the QueryBuilder did: the error it raised, the statements
\* it returned, the query cache and the operation cache after it
Outcome(err, queries, cache, opCache) ==
    [err |-> err, queries |-> queries, queryCache |-> cache, operationCache |-> opCache]

\* the two statements buildSelectQuery assembles around the filters
Statements(config, joinMap, withs, selectedFields, validSortField, filters) ==
    LET orderBy ==
            <<Txt("ORDER BY ")>>
            \o (IF validSortField # <<>> THEN TxtSeq(validSortField)
                ELSE TxtSeq(selectedFields[1]))
            \o <<Txt(" ")>> \o TxtSeq(ToUpperCase(config.sortDirection))
        withClause ==
            IF Len(withs) > 0
            THEN <<Txt("WITH ")>> \o TxtSeq(JoinWith(withs, <<",", " ">>)) \o <<Txt(" ")>>
            ELSE <<>>
        joinClause ==
            TxtSeq(JoinWith([i \in 1..Len(joinMap) |-> joinMap[i].text], <<" ">>))
        from ==
            <<Txt("FROM ")>> \o TxtSeq(schema) \o <<Txt(".")>>
            \o TxtSeq(sanitizeIdentifier(config.tableName).s) \o joinClause
    IN  [selectQuery |->
            [text |-> <<Txt("\n")>> \o withClause
                      \o <<Txt("\n"), Txt("SELECT ")>>
                      \o TxtSeq(JoinWith(selectedFields, <<",", " ">>))
                      \o <<Txt("\n")>> \o from
                      \o <<Txt("\n")>> \o filters.text
                      \o <<Txt("\n")>> \o orderBy
                      \o <<Txt("\n"), Txt("LIMIT "), Ph(Len(filters.values) + 1),
                           Txt(" OFFSET "), Ph(Len(filters.values) + 2), Txt("\n")>>,
             values |-> filters.values \o <<config.limit, config.offset>>],
         countQuery |->
            [text |-> <<Txt("\n")>> \o withClause
                      \o <<Txt("\n"), Txt("SELECT COUNT(1) AS count"), Txt("\n")>>
                      \o from
                      \o <<Txt("\n")>> \o filters.text \o <<Txt("\n")>>,
             values |-> filters.values]]

\* this.queryCache.set(cacheKey, { selectQuery, countQuery }) and the return
Stored(cacheKey, queries, cache, opCache) ==
    Outcome("none", queries, (cacheKey :> queries) @@ cache, opCache)

\* buildSelectQuery from the point where the filter builder has run
Assembled(config, joinMap, withs, cache, cacheKey, selectedFields, validSortField, filterBuilder) ==
    IF filterBuilder.err # "none"
    THEN Outcome(filterBuilder.err, NoQueries, cache, filterBuilder.cache)
    ELSE Stored(cacheKey,
                Statements(config, joinMap, withs, selectedFields, validSortField,
                           build(filterBuilder)),
                cache, filterBuilder.cache)

\* .addDynamicFilters(queryParams, excludeFields) on the builder
\* addRequiredConditions returned, unless that call raised
ThenDynamicFilters(required, config) ==
    IF required.err # "none" THEN required
    ELSE addDynamicFilters(required, selectTransformers, config.queryParams,
                           config.excludeFields, 0).b

\* the filter builder of a buildSelectQuery call after its two calls
FilterBuilderOf(config, opCache) ==
    ThenDynamicFilters(addRequiredConditions(NewBuilder(opCache), selectTransformers,
                                             config.requiredFilters, 0).b,
                       config)

\* buildSelectQuery from the point where the cache key is known
Selected(config, joinMap, withs, cache, opCache, cacheKey) ==
    IF cacheKey.err # "none" THEN Outcome(cacheKey.err, NoQueries, cache, opCache)
    ELSE IF cacheKey.key \in DOMAIN cache
    THEN Outcome("none",
                 [selectQuery |-> [text   |-> cache[cacheKey.key].selectQuery.text,
                                   values |-> cache[cacheKey.key].selectQuery.values
                                              \o <<config.limit, config.offset>>],
                  countQuery  |-> cache[cacheKey.key].countQuery],
                 cache, opCache)
    ELSE
    LET selectedFields == validateFields(normalizeFields(config.fields))
        validSortField == validateSortField(config.sortField)
    IN  IF selectedFields.err # "none"
        THEN Outcome(selectedFields.err, NoQueries, cache, opCache)
        ELSE IF validSortField.err # "none"
        THEN Outcome(validSortField.err, NoQueries, cache, opCache)
        ELSE Assembled(config, joinMap, withs, cache, cacheKey.key, selectedFields.dbFields,
                       validSortField.dbField, FilterBuilderOf(config, opCache))

\* buildSelectQuery(config) on a QueryBuilder with these joins, with clauses
\* and query cache
buildSelectQuery(config, joinMap, withs, cache, opCache) ==
    Selected(config, joinMap, withs, cache, opCache, generateCacheKey(config))

\* buildAggregateQuery constructs its builder without custom transformers
noTransformers == [dbField \in {} |-> "none"]

\* one entry of aggregates: `${func}(${dbField}) AS ${sanitizeIdentifier(alias)}`
AggregateField(a) ==
    LET dbField == IF HasField(NameOfString(a.field))
                   THEN fieldMappings[NameOfString(a.field)].dbField
                   ELSE a.field
        alias == sanitizeIdentifier(a.alias)
    IN  [err |-> alias.err,
         s   |-> a.function \o <<"(">> \o dbField \o <<")", " AS ">> \o alias.s]

\* Object.entries(aggregates).map(...): the first alias that fails raises
aggregateFields(aggregates) ==
    LET fields == [i \in 1..Len(aggregates) |-> AggregateField(aggregates[i])]
        failed == {i \in 1..Len(fields) : fields[i].err # "none"}
    IN  IF failed # {}
        THEN [err |-> fields[CHOOSE i \in failed : \A j \in failed : i <= j].err, list |-> <<>>]
        ELSE [err |-> "none", list |-> [i \in 1..Len(fields) |-> fields[i].s]]

\* groupBy.map(field => mapping ? mapping.dbField : field)
groupByFields(groupBy) ==
    [i \in 1..Len(groupBy) |->
        IF HasField(NameOfString(groupBy[i])) THEN fieldMappings[NameOfString(groupBy[i])].dbField
        ELSE groupBy[i]]

\* what buildAggregateQuery did: the error it raised, the statement it
\* returned, the operation cache after it
AggregateOutcome(err, query, opCache) == [err |-> err, query |-> query, operationCache |-> opCache]

NoStatement == [text |-> <<>>, values |-> <<>>]

\* the statement buildAggregateQuery assembles around the filters
AggregateStatement(joinMap, withs, selectFields, groupFields, sanitizedTableName, filters) ==
    LET withClause ==
            IF Len(withs) > 0
            THEN <<Txt("WITH ")>> \o TxtSeq(JoinWith(withs, <<",", " ">>)) \o <<Txt(" ")>>
            ELSE <<>>
        joinClause ==
            TxtSeq(JoinWith([i \in 1..Len(joinMap) |-> joinMap[i].text], <<" ">>))
        groupByClause ==
            IF Len(groupFields) > 0
            THEN <<Txt("GROUP BY ")>> \o TxtSeq(JoinWith(groupFields, <<",", " ">>))
            ELSE <<>>
    IN  [text |-> <<Txt("\n")>> \o withClause
                  \o <<Txt("\n"), Txt("SELECT ")>>
                  \o TxtSeq(JoinWith(selectFields, <<",", " ">>))
                  \o <<Txt("\n"), Txt("FROM ")>> \o TxtSeq(schema) \o <<Txt(".")>>
                  \o TxtSeq(sanitizedTableName) \o joinClause
                  \o <<Txt("\n")>> \o filters.text
                  \o <<Txt("\n")>> \o groupByClause \o <<Txt("\n")>>,
         values |-> filters.values]

\* .addDynamicFilters(queryParams, excludeFields) on the builder
\* addRequiredConditions returned, unless that call raised
AggregateDynamicFilters(required, config) ==
    IF required.err # "none" THEN required
    ELSE addDynamicFilters(required, noTransformers, config.queryParams,
                           config.excludeFields, 0).b

\* the filter builder of a buildAggregateQuery call after its two calls
AggregateBuilderOf(config, opCache) ==
    AggregateDynamicFilters(addRequiredConditions(NewBuilder(opCache), noTransformers,
                                                  config.requiredFilters, 0).b,
                            config)

\* buildAggregateQuery from the point where the filter builder has run
Aggregated(config, joinMap, withs, fields, filterBuilder, sanitizedTableName) ==
    IF filterBuilder.err # "none"
    THEN AggregateOutcome(filterBuilder.err, NoStatement, filterBuilder.cache)
    ELSE IF sanitizedTableName.err # "none"
    THEN AggregateOutcome(sanitizedTableName.err, NoStatement, filterBuilder.cache)
    ELSE AggregateOutcome("none",
                          AggregateStatement(joinMap, withs,
                                             groupByFields(config.groupBy) \o fields,
                                             groupByFields(config.groupBy),
                                             sanitizedTableName.s, build(filterBuilder)),
                          filterBuilder.cache)

\* buildAggregateQuery from the point where the aggregates are mapped
AggregatedFrom(config, joinMap, withs, opCache, fields) ==
    IF fields.err # "none" THEN AggregateOutcome(fields.err, NoStatement, opCache)
    ELSE Aggregated(config, joinMap, withs, fields.list, AggregateBuilderOf(config, opCache),
                    sanitizeIdentifier(config.tableName))

\* buildAggregateQuery(config) on a QueryBuilder with these joins and with
\* clauses
buildAggregateQuery(config, joinMap, withs, opCache) ==
    AggregatedFrom(config, joinMap, withs, opCache, aggregateFields(config.aggregates))

----------------------------------------------------------------------------
(* The inputs the model draws its calls from *)

vX      == StrV(<<"X">>)
vBob    == StrV(<<"b", "o", "b">>)
vList   == StrV(<<"a", ",", " ", "b">>)
vEmpty  == StrV(<<>>)
vTrue   == BoolV(TRUE)
vFalse  == BoolV(FALSE)
vFive   == NumV(<<"5">>)
vArray  == ArrV(<<StrV(<<"a">>), StrV(<<"b">>)>>)
vRange  == ObjV(<<"start", "end">>, <<StrV(<<"a">>), StrV(<<"b">>)>>)
vPath   == ObjV(<<"path", "value">>, <<StrV(<<"r">>), StrV(<<"X">>)>>)
vJsonPath == ObjV(<<"jsonPath", "value">>, <<StrV(<<"r">>), StrV(<<"X">>)>>)
vMonth  == StrV(<<"2", "0", "2", "3", "-", "0", "3">>)
vYear   == StrV(<<"2", "0", "2", "4">>)
vField  == StrV(<<"id">>)
vPadded == StrV(<<" ", "X", "B">>)
vPair   == StrV(<<"a", ",", "b">>)
vZeroRange == ObjV(<<"start", "end">>, <<NumV(<<"0">>), NumV(<<"5">>)>>)

\* zones of the process, minutes east of UTC
TimeZones == {-300, 0, 330}

\* for each operator, values of the shapes it is written for and one it is not
OpValues(op) ==
    CASE op \in {"in", "notIn", "any", "all"} -> {vList, vArray, vTrue}
      [] op \in {"between", "notBetween"} -> {vRange, vArray, NullV, vZeroRange, vPair}
      [] op = "dateRange" -> {vRange, vList, vX}
      [] op = "monthYear" -> {vMonth, vX, vTrue}
      [] op = "year" -> {vYear, vX}
      [] op = "col" -> {vField, vX}
      [] op \in {"jsonContains", "jsonContained"} -> {vX, vPath}
      [] op \in {"jsonKeyExists", "jsonAnyKeyExists", "jsonAllKeysExist"} -> {vX, vArray}
      [] op = "jsonPath" -> {vJsonPath, vPath, NullV}
      [] op = "jsonEq" -> {vArray, vPath}
      [] op \in {"isTrue", "isFalse"} -> {vTrue, vFalse}
      [] OTHER -> {vBob, vPadded}


\* a value of the shape the operator is written for
CanonValue(op) ==
    CASE op \in {"in", "notIn", "any", "all", "dateRange"} -> vList
      [] op \in {"between", "notBetween"} -> vRange
      [] op = "monthYear" -> vMonth
      [] op = "year" -> vYear
      [] op = "col" -> vField
      [] op = "jsonPath" -> vJsonPath
      [] op = "jsonEq" -> vArray
      [] op \in {"isTrue", "isFalse"} -> vFalse
      [] OTHER -> vBob

CondInput(field, operator, value) == [field |-> field, operator |-> operator, value |-> value]

UnknownField == <<"nope">>

AllFields == DOMAIN fieldMappings \cup {UnknownField}

\* the addCondition calls made on the first builder of a process
CondInputsFull ==
    {CondInput(<<"name">>, "bogus", vBob)}
    \cup UNION {{CondInput(<<"name">>, op, v) : v \in OpValues(op)} : op \in OperatorNames}
    \cup {CondInput(f, op, vPadded) : f \in AllFields, op \in {"eq", "bogus"}}
    \cup {CondInput(<<"emailSubject">>, op, v) : op \in {"like", "ciEq", "fts"},
                                                  v \in {vPadded, vTrue}}

\* operators of the branches of buildCondition that differ in the number of
\* placeholders and parameters, and an unregistered one
BranchOperators ==
    {"isNull", "in", "between", "monthYear", "any", "col", "jsonContains", "jsonPath",
     "fts", "isTrue", "eq", "like", "bogus"}

\* the addCondition calls made on a builder in use
CondInputsNext(cache) ==
    {CondInput(<<"name">>, op, CanonValue(op)) : op \in BranchOperators \cup DOMAIN cache}
    \cup {CondInput(f, "eq", vX) : f \in {UnknownField, <<"status">>}}

RequiredEntries ==
    {Entry(<<"id">>, vX), Entry(<<"name">>, vBob), Entry(<<"status">>, vX),
     Entry(UnknownField, vX), Entry(<<"emailSubject">>, vPadded),
     Entry(<<"birthday">>, vX), Entry(<<"isActive">>, vTrue)}

DynamicEntries ==
    {Entry(<<"name", "like">>, vBob),      Entry(<<"name">>, vX),
     Entry(<<"id">>, vX),                  Entry(<<"isActive">>, vFalse),
     Entry(<<"status", "like">>, vX),      Entry(<<"status">>, vX),
     Entry(<<"status", "bogus">>, vX),     Entry(<<"total", "gt">>, vFive),
     Entry(<<"nope", "eq">>, vX),          Entry(UnknownField, vX),
     Entry(<<"name", "bogus">>, vX),       Entry(<<"limit">>, vFive),
     Entry(<<"name", "eq">>, vEmpty),      Entry(<<"created", "at">>, vX),
     Entry(<<"tags", "in">>, vList),       Entry(<<"ftsVector", "fts">>, vBob),
     Entry(<<"page", "v2">>, vX),          Entry(<<"id", "eq">>, NullV),
     Entry(<<"createdByUser", "eq">>, vX), Entry(<<"emailSubject">>, vPadded)}

\* bare keys of the declared types the other entries lack
BareEntries ==
    {Entry(<<"createdAt">>, vPair), Entry(<<"metadata">>, vX), Entry(<<"tags">>, vList),
     Entry(<<"ftsVector">>, vBob),  Entry(<<"birthday">>, vPair), Entry(<<"bio">>, vX),
     Entry(<<"total">>, vFive)}

\* the entries of the maps passed to a builder in use
RequiredEntriesNext == {Entry(<<"id">>, vX), Entry(<<"status">>, vX), Entry(UnknownField, vX)}

DynamicEntriesNext ==
    {Entry(<<"name", "like">>, vBob),      Entry(<<"id">>, vX),
     Entry(<<"status", "like">>, vX),      Entry(<<"nope", "eq">>, vX),
     Entry(<<"name", "bogus">>, vX),       Entry(<<"ftsVector", "fts">>, vBob),
     Entry(<<"tags", "in">>, vList)}

\* keys that share operators: like (name_like, bare name), eq (bare id) and
\* fts, and a computed field
GroupedEntries ==
    {Entry(<<"name", "like">>, vBob), Entry(<<"id">>, vX), Entry(<<"name">>, vX),
     Entry(<<"ftsVector", "fts">>, vBob), Entry(<<"status", "like">>, vX)}

\* the sequences of at most n entries with distinct keys drawn from a set
RECURSIVE Maps(_, _)
Maps(entries, n) ==
    IF n = 0 THEN {<<>>}
    ELSE LET shorter == Maps(entries, n - 1)
         IN  shorter \cup
             {Append(m, e) : m \in {x \in shorter : Len(x) = n - 1},
                             e \in entries} 

DistinctKeys(m) == \A i, j \in 1..Len(m) : m[i].key = m[j].key => i = j

MapsOf(entries, n) == {m \in Maps(entries, n) : DistinctKeys(m)}

\* the excludeFields lists of the model
ExcludeLists == {{}, {<<"name", "like">>, <<"id">>}}

\* is the builder the first one of the process, before any call
Fresh == conditions = <<>> /\ DOMAIN operationCache = {} /\ lastCall.op = "new"

\* the options of a buildSelectQuery call, defaults filled in
Config(tableName, fields, requiredFilters, queryParams, limit, offset, sortField, sortDirection) ==
    [tableName |-> tableName, fields |-> fields, requiredFilters |-> requiredFilters,
     queryParams |-> queryParams, excludeFields |-> {}, limit |-> limit, offset |-> offset,
     sortField |-> sortField, sortDirection |-> sortDirection]

vTen    == NumV(<<"10">>)
vZero   == NumV(<<"0">>)
vTwenty == NumV(<<"20">>)

NoConfig == Config(<<>>, ArrV(<<>>), <<>>, <<>>, vTen, vZero, NullV, <<"DESC">>)

\* one entry of the aggregates of a buildAggregateQuery call
Aggregate(alias, function, field) == [alias |-> alias, function |-> function, field |-> field]

\* the options of a buildAggregateQuery call, defaults filled in
AggregateConfig(tableName, aggregates, groupBy, requiredFilters, queryParams) ==
    [tableName |-> tableName, aggregates |-> aggregates, groupBy |-> groupBy,
     requiredFilters |-> requiredFilters, queryParams |-> queryParams, excludeFields |-> {}]

NoAggregate == AggregateConfig(<<>>, <<>>, <<>>, <<>>, <<>>)

\* the record of a call on the QueryBuilder: its name, the configuration of
\* the latest buildSelectQuery call, whether the query cache held its key, the
\* error the call raised and what it returned; the name an addJoin or
\* addWithClause call was given; the configuration of a buildAggregateQuery
\* call and the statement it returned
Query(op, config, hit, err, queries) ==
    [op |-> op, config |-> config, hit |-> hit, err |-> err, queries |-> queries,
     name |-> <<>>, aggregate |-> NoAggregate, query |-> NoStatement]

NoQuery == Query("new", NoConfig, FALSE, "none", NoQueries)

\* the configurations of the first buildSelectQuery call of the model
FieldLists ==
    {ArrV(<<>>), ArrV(<<StrV(<<"name">>)>>), StrV(<<"name", ",", " ", "id">>),
     ArrV(<<StrV(<<"nope">>)>>)}

RequiredMaps == {<<>>, <<Entry(<<"id">>, vX)>>}

QueryMaps ==
    {<<>>, <<Entry(<<"name", "like">>, vBob)>>, <<Entry(<<"ftsVector", "fts">>, vBob)>>,
     <<Entry(<<"name", "bogus">>, vX)>>}

SortFields == {NullV, vEmpty, StrV(<<"name">>), StrV(<<"status">>), StrV(<<"nope">>)}

\* a table, a name that is no identifier, and a name with a third part
TableNames == {<<"users">>, <<"users", ";">>, <<"users", " ", "u", " ", ";">>}

BaseConfig ==
    Config(<<"users">>, ArrV(<<StrV(<<"name">>)>>), <<Entry(<<"id">>, vX)>>, <<>>, vTen, vZero,
           NullV, <<"DESC">>)

\* the base configuration and those that differ from it in one option
FirstConfigs ==
    {[BaseConfig EXCEPT !.tableName = t] : t \in TableNames}
    \cup {[BaseConfig EXCEPT !.fields = f] : f \in FieldLists}
    \cup {[BaseConfig EXCEPT !.requiredFilters = r] : r \in RequiredMaps}
    \cup {[BaseConfig EXCEPT !.queryParams = q] : q \in QueryMaps}
    \cup {[BaseConfig EXCEPT !.sortField = sf] : sf \in SortFields}
    \cup {[BaseConfig EXCEPT !.fields = ArrV(<<StrV(<<"nope">>)>>),
                             !.sortField = StrV(<<"nope">>)]}

\* the configurations of a call that follows one with configuration c: the
\* same again, another page, other queryParams, another direction
NextConfigs(c) ==
    {c, [c EXCEPT !.limit = vTwenty, !.offset = vFive],
        [c EXCEPT !.sortDirection = <<"asc">>],
        [c EXCEPT !.queryParams = <<Entry(<<"name", "like">>, vBob)>>]}

\* the joins and with clauses of the model
JoinInputs ==
    {[joinType |-> <<"LEFT JOIN">>, table |-> <<"orders", " ", "o">>,
      condition |-> <<"o.user_id = t.id">>],
     [joinType |-> <<"LEFT JOIN">>, table |-> <<"orders", ";">>,
      condition |-> <<"o.user_id = t.id">>],
     [joinType |-> <<"LEFT JOIN">>, table |-> <<"orders", " ", "o", " ", ";">>,
      condition |-> <<"o.user_id = t.id">>],
     [joinType |-> <<"LEFT JOIN">>, table |-> <<"orders", " ", "o">>,
      condition |-> <<"o.owner_id = t.id">>]}

WithInputs ==
    {[name |-> <<"recent">>, query |-> <<"SELECT 1">>],
     [name |-> <<"recent", " ", "x", "-">>, query |-> <<"SELECT 1">>],
     [name |-> <<"recent", ".", "o", ".", "-">>, query |-> <<"SELECT 1">>]}

\* the configurations of the buildAggregateQuery calls of the model: the base
\* configuration and those that differ from it in one option
AliasNames == {<<"cnt">>, <<"cnt", ";">>, <<"cnt", " ", "o", " ", ";">>}

GroupByLists ==
    {<<>>, <<<<"name">>>>, <<<<"nope">>>>, <<<<"status">>>>, <<<<"name">>, <<"total">>>>}

BaseAggregate ==
    AggregateConfig(<<"users">>, <<Aggregate(<<"cnt">>, <<"COUNT">>, <<"id">>)>>, <<<<"name">>>>,
                    <<>>, <<>>)

AggregateConfigs ==
    {[BaseAggregate EXCEPT !.tableName = t] : t \in TableNames}
    \cup {[BaseAggregate EXCEPT !.aggregates = <<Aggregate(a, <<"COUNT">>, <<"id">>)>>]
          : a \in AliasNames}
    \cup {[BaseAggregate EXCEPT !.aggregates = <<Aggregate(<<"cnt">>, <<"SUM">>, <<"nope">>),
                                                 Aggregate(<<"o">>, <<"MAX">>, <<"total">>)>>]}
    \cup {[BaseAggregate EXCEPT !.groupBy = g] : g \in GroupByLists}
    \cup {[BaseAggregate EXCEPT !.requiredFilters = r] : r \in RequiredMaps}
    \cup {[BaseAggregate EXCEPT !.queryParams = q]
          : q \in QueryMaps \cup {<<Entry(<<"emailSubject">>, vPadded)>>}}

----------------------------------------------------------------------------
(* The stand-alone builder as a state machine *)

EmptyCache == [name \in {} |-> NoOperation]

NoCond == CondInput(<<>>, "", NullV)

NoBuilt == [text |-> <<>>, values |-> <<>>]

\* the builder held in the variables
Cur ==
    [err |-> "none", conditions |-> conditions, values |-> values,
     paramIndex |-> paramIndex, binds |-> binds, cache |-> operationCache]

\* the record of a call: its name and input, the error it raised, the
\* addCondition calls it made, the builder before it and what build()
\* returned; for a build() that follows a build(), what the earlier returned
Call(op, map, exclude, cond, tz, err, log, built) ==
    [op |-> op, map |-> map, exclude |-> exclude, cond |-> cond, tz |-> tz,
     err |-> err, log |-> log, pre |-> Snapshot(Cur), built |-> built,
     again |-> FALSE, earlier |-> NoBuilt]

\* before any call on a new builder
NoCall ==
    [op |-> "new", map |-> <<>>, exclude |-> {}, cond |-> NoCond, tz |-> 0,
     err |-> "none", log |-> <<>>,
     pre |-> [conditions |-> <<>>, values |-> <<>>, paramIndex |-> 1], built |-> NoBuilt,
     again |-> FALSE, earlier |-> NoBuilt]

Install(b) ==
    /\ conditions' = b.conditions
    /\ values' = b.values
    /\ paramIndex' = b.paramIndex
    /\ binds' = b.binds
    /\ operationCache' = b.cache

\* the builder after a call that returned r, and the record of the call
Return(op, map, exclude, cond, tz, r) ==
    /\ Install(r.b)
    /\ lastCall' = Call(op, map, exclude, cond, tz, r.b.err, r.log, NoBuilt)

----------------------------------------------------------------------------
(* The utility classes: ResponseMapper, PaginationBuilder and the static    *)
(* cache of DateFilterUtils.  A column name is the sequence of its words    *)
(* between the "_" characters, as a logical field name is.                  *)

\* the words of the model that hold a "." inside, and what follows their
\* last "."
DottedWords ==
    ("to_tsvector('english', t.name)" :> "name)")
 @@ ("COUNT(1) FROM o WHERE o.t_id = t.id" :> "id")

\* the segments of a column word
ColumnSegments(word) ==
    CASE word = "is_active"  -> <<"is", "active">>
      [] word = "created_at" -> <<"created", "at">>
      [] word = "created_by" -> <<"created", "by">>
      [] word = "user_name"  -> <<"user", "name">>
      [] OTHER               -> <<word>>

\* a word that [\w_]+ matches
IsColumnWord(word) ==
    word \in {"id", "name", "is_active", "created_at", "created_by", "user_name", "status",
              "tags", "metadata", "birthday", "bio", "subject", "t", "o", "e"}

HasDot(dbField) ==
    \E i \in 1..Len(dbField) : dbField[i] = "." \/ dbField[i] \in DOMAIN DottedWords

\* dbField.split('.').pop()
AfterLastDot(dbField) ==
    LET i    == CHOOSE j \in 1..Len(dbField) :
                   /\ dbField[j] = "." \/ dbField[j] \in DOMAIN DottedWords
                   /\ \A k \in (j + 1)..Len(dbField) :
                         dbField[k] # "." /\ dbField[k] \notin DOMAIN DottedWords
        rest == SubSeq(dbField, i + 1, Len(dbField))
        tail == IF dbField[i] = "." THEN rest ELSE <<DottedWords[dbField[i]]>> \o rest
    IN  IF Len(tail) = 1 THEN ColumnSegments(tail[1]) ELSE tail

\* ResponseMapper.extractColumnName; the aliases of the model are unquoted
extractColumnName(dbField, fallback) ==
    IF Includes(dbField, " AS ")
    THEN IF /\ Len(dbField) >= 2
            /\ dbField[Len(dbField) - 1] = " AS "
            /\ IsColumnWord(dbField[Len(dbField)])
         THEN ColumnSegments(dbField[Len(dbField)])
         ELSE fallback
    ELSE IF HasDot(dbField) THEN AfterLastDot(dbField)
    ELSE fallback

\* ResponseMapper.mapResponse for a mapper constructed with mappings
mapResponse(mappings, row) ==
    [camelKey \in {k \in DOMAIN mappings :
                      extractColumnName(mappings[k].dbField, k) \in DOMAIN row}
        |-> row[extractColumnName(mappings[camelKey].dbField, camelKey)]]

\* Math.ceil(a / b) for integers a >= 0 and b > 0
CeilDiv(a, b) == IF a % b = 0 THEN a \div b ELSE (a \div b) + 1

\* PaginationBuilder.build for integers totalCount >= 0, limit > 0, offset >= 0
PaginationBuilderBuild(totalCount, limit, offset) ==
    LET totalPages  == CeilDiv(totalCount, limit)
        currentPage == offset \div limit
    IN  [totalRowCount |-> totalCount,
         pageSize      |-> limit,
         pageNumber    |-> currentPage,
         totalPages    |-> totalPages,
         hasNextPage   |-> currentPage < totalPages - 1,
         hasPrevPage   |-> currentPage > 0,
         offset        |-> offset,
         limit         |-> limit]

\* the utility call op on input that returned result; zones are the time
\* zones the process may still turn out to run in
Util(op, input, result, zones) ==
    [op |-> op, input |-> input, result |-> result, zones |-> zones]

NoUtil == Util("new", [none |-> TRUE], [none |-> TRUE], TimeZones)

InitBuilder ==
    /\ conditions = <<>>
    /\ values = <<>>
    /\ paramIndex = 1
    /\ binds = <<>>
    /\ operationCache = EmptyCache
    /\ lastCall = NoCall

InitQuery ==
    /\ joins = <<>>
    /\ withClauses = <<>>
    /\ queryCache = <<>>
    /\ lastQuery = NoQuery

InitUtil ==
    /\ dateRangeCache = <<>>
    /\ lastUtil = NoUtil

Init == InitBuilder /\ InitQuery /\ InitUtil

\* the model makes calls on a builder that holds fewer than MaxConds fragments
InUse == Len(conditions) < MaxConds

ZonesFor(operator) == IF operator \in {"monthYear", "year"} THEN TimeZones ELSE {0}

\* new FilterConditionBuilder(fieldMappings, customTransformers): the static
\* operation cache outlives the builder
Construct ==
    /\ lastCall.op # "new"
    /\ DOMAIN operationCache \subseteq {"eq"}
    /\ Install(NewBuilder(operationCache))
    /\ lastCall' = NoCall
    /\ UNCHANGED qbVars

AddCondition ==
    /\ InUse
    /\ \E c \in (IF Fresh THEN CondInputsFull ELSE CondInputsNext(operationCache)) :
       \E tz \in ZonesFor(c.operator) :
          Return("addCondition", <<>>, {}, c, tz,
                 LoggedCondition([b |-> Cur, log |-> <<>>], customTransformers, 1,
                                 c.field, c.operator, c.value, tz))
    /\ UNCHANGED qbVars

AddRequiredConditions ==
    /\ InUse
    /\ \E m \in (IF Fresh THEN MapsOf(RequiredEntries, MaxKeys)
                ELSE MapsOf(RequiredEntriesNext, 1)) :
          Return("addRequiredConditions", m, {}, NoCond, 0,
                 addRequiredConditions(Cur, customTransformers, m, 0))
    /\ UNCHANGED qbVars

AddDynamicFilters ==
    /\ InUse
    /\ \E m \in (IF Fresh
                THEN MapsOf(DynamicEntries, MaxKeys) \cup MapsOf(GroupedEntries, MaxGroupKeys)
                     \cup MapsOf(BareEntries, 1)
                ELSE IF lastCall.op = "addRequiredConditions"
                THEN MapsOf(DynamicEntriesNext, 1) \cup MapsOf(GroupedEntries, MaxGroupKeys)
                ELSE MapsOf(DynamicEntriesNext, 1)) :
       \E ex \in {x \in ExcludeLists : x = {} \/ \E i \in 1..Len(m) : m[i].key \in x} :
          Return("addDynamicFilters", m, ex, NoCond, 0,
                 addDynamicFilters(Cur, customTransformers, m, ex, 0))
    /\ UNCHANGED qbVars

\* build(), at most twice in a row
Build ==
    /\ ~(lastCall.op = "build" /\ lastCall.again)
    /\ UNCHANGED <<conditions, values, paramIndex, binds, operationCache>>
    /\ lastCall' = [Call("build", <<>>, {}, NoCond, 0, "none", <<>>, build(Cur))
                    EXCEPT !.again = (lastCall.op = "build"),
                           !.earlier = IF lastCall.op = "build" THEN lastCall.built
                                       ELSE NoBuilt]
    /\ UNCHANGED qbVars

Next ==
    \/ Construct
    \/ AddCondition
    \/ AddRequiredConditions
    \/ AddDynamicFilters
    \/ Build

Spec == Init /\ [][Next]_vars

----------------------------------------------------------------------------
(* Properties of the stand-alone builder *)

\* C1: every placeholder $i of an emitted fragment has 1 <= i <= Len(values),
\* values[i] is the value the fragment that emitted $i bound to it, and the
\* next placeholder index is Len(values) + 1.
C1_PlaceholdersBound ==
    /\ paramIndex = Len(values) + 1
    /\ Len(binds) = Len(conditions)
    /\ \A j \in 1..Len(conditions) :
          LET phs == Placeholders(conditions[j])
          IN  \A i \in 1..Len(phs) :
                 /\ phs[i] >= 1
                 /\ phs[i] <= Len(values)
                 /\ i <= Len(binds[j])
                 /\ values[phs[i]] = binds[j][i]

\* two fragments emitted by successful calls, one of them with a list of
\* placeholders, the other numbered after it
C1_Witness ==
    /\ lastCall.err = "none"
    /\ Len(conditions) >= 2
    /\ Len(Placeholders(conditions[1])) >= 2
    /\ Len(Placeholders(conditions[2])) >= 1
    /\ Placeholders(conditions[2])[1] = 3

\* C2: build()'s text has as many placeholders as there are parameters, and
\* they read $1, $2, ... $k from left to right.
C2_PlaceholdersContiguous ==
    lastCall.op = "build" =>
        LET phs == Placeholders(lastCall.built.text)
        IN  /\ Len(phs) = Len(lastCall.built.values)
            /\ \A i \in 1..Len(phs) : phs[i] = i


----------------------------------------------------------------------------
(* The builder with queryParams of about maxConditions keys *)

\* fields and one-parameter operators the padding keys are made of
PadFields == <<<<"name">>, <<"bio">>, <<"birthday">>, <<"createdAt">>, <<"id">>>>

PadOps ==
    <<"eq", "ne", "gt", "gte", "lt", "lte", "like", "startsWith", "endsWith", "regexp",
      "ciEq">>

\* the i-th padding entry, '<field>_<operator>': 'X'
PadKey(i) ==
    Entry(Append(PadFields[((i - 1) % Len(PadFields)) + 1],
                 PadOps[((i - 1) \div Len(PadFields)) + 1]), vX)

Pad(n) == [i \in 1..n |-> PadKey(i)]

\* what comes before or after the padding: a reserved key, an empty value, an
\* unregistered bare key, a computed field, an unregistered suffix, a list, a
\* bare boolean field, a full-text search
PadTails ==
    {Entry(<<"limit">>, vFive), Entry(<<"name">>, vEmpty), Entry(<<"nope">>, vX),
     Entry(<<"status">>, vX), Entry(<<"name", "bogus">>, vX), Entry(<<"tags", "in">>, vList),
     Entry(<<"isActive">>, vTrue), Entry(<<"ftsVector", "fts">>, vBob)}

PaddedMaps ==
    UNION {{Pad(n)} \cup {Pad(n) \o <<e>> : e \in PadTails}
                    \cup {<<e>> \o Pad(n) : e \in PadTails}
           : n \in (maxConditions - 1)..(maxConditions + MaxOver)}

PadExcludes == {{}, {PadKey(1).key}}

PaddedDynamicFilters ==
    /\ conditions = <<>>
    /\ \E m \in PaddedMaps, ex \in PadExcludes :
          Return("addDynamicFilters", m, ex, NoCond, 0,
                 addDynamicFilters(Cur, customTransformers, m, ex, 0))
    /\ UNCHANGED qbVars

\* addCondition on a builder that holds about maxConditions fragments
CapInputs == {CondInput(<<"name">>, "eq", vX), CondInput(UnknownField, "eq", vX)}

AddConditionPadded ==
    /\ Len(conditions) >= maxConditions - 1
    /\ Len(conditions) <= maxConditions
    /\ \E c \in CapInputs :
          Return("addCondition", <<>>, {}, c, 0,
                 LoggedCondition([b |-> Cur, log |-> <<>>], customTransformers, 1,
                                 c.field, c.operator, c.value, 0))
    /\ UNCHANGED qbVars

NextCap ==
    \/ Construct
    \/ PaddedDynamicFilters
    \/ AddConditionPadded
    \/ Build

SpecCap == Init /\ [][NextCap]_vars

----------------------------------------------------------------------------
(* The QueryBuilder as a state machine *)

\* addJoin(joinType, table, condition)
AddJoin ==
    /\ \E j \in JoinInputs :
          LET sanitizedTable == sanitizeIdentifier(j.table)
              joinKey == j.joinType \o <<":">> \o sanitizedTable.s
          IN  /\ \/ Len(joins) < MaxClauses
                 \/ \E i \in 1..Len(joins) : joins[i].key = joinKey
              /\ joins' =
                    IF sanitizedTable.err # "none" THEN joins
                    ELSE IF \E i \in 1..Len(joins) : joins[i].key = joinKey THEN joins
                    ELSE Append(joins,
                                [key  |-> joinKey,
                                 text |-> j.joinType \o <<" ">> \o sanitizedTable.s
                                          \o <<" ON ">> \o j.condition])
              /\ lastQuery' = [Query("addJoin", lastQuery.config, FALSE,
                                      sanitizedTable.err, NoQueries)
                                EXCEPT !.name = j.table]
    /\ UNCHANGED <<withClauses, queryCache>>
    /\ UNCHANGED fbVars
    /\ UNCHANGED utilVars

\* addWithClause(name, query)
AddWithClause ==
    /\ Len(withClauses) < MaxClauses
    /\ \E w \in WithInputs :
          LET name == sanitizeIdentifier(w.name)
          IN  /\ withClauses' =
                    IF name.err # "none" THEN withClauses
                    ELSE Append(withClauses, name.s \o <<" AS (">> \o w.query \o <<")">>)
              /\ lastQuery' = [Query("addWithClause", lastQuery.config, FALSE, name.err,
                                      NoQueries)
                                EXCEPT !.name = w.name]
    /\ UNCHANGED <<joins, queryCache>>
    /\ UNCHANGED fbVars
    /\ UNCHANGED utilVars

\* does the query cache hold the key
IsHit(cacheKey) == cacheKey.err = "none" /\ cacheKey.key \in DOMAIN queryCache

\* the QueryBuilder after a buildSelectQuery call that ended with outcome r
Returned(c, hit, r) ==
    /\ queryCache' = r.queryCache
    /\ operationCache' = r.operationCache
    /\ lastQuery' = Query("buildSelectQuery", c, hit, r.err, r.queries)

\* buildSelectQuery(config); a configuration with a new cache key is passed
\* while the query cache holds fewer than MaxCache entries
BuildSelectQuery ==
    /\ \E c \in (IF lastQuery.config = NoConfig THEN FirstConfigs
                ELSE NextConfigs(lastQuery.config)) :
          /\ IsHit(generateCacheKey(c)) \/ Cardinality(DOMAIN queryCache) < MaxCache
          /\ Returned(c, IsHit(generateCacheKey(c)),
                      buildSelectQuery(c, joins, withClauses, queryCache, operationCache))
    /\ UNCHANGED <<joins, withClauses>>
    /\ UNCHANGED <<conditions, values, paramIndex, binds, lastCall>>
    /\ UNCHANGED utilVars

\* the QueryBuilder after a buildAggregateQuery call that ended with outcome r
AggregateReturned(c, r) ==
    /\ operationCache' = r.operationCache
    /\ lastQuery' = [Query("buildAggregateQuery", lastQuery.config, FALSE, r.err, NoQueries)
                     EXCEPT !.aggregate = c, !.query = r.query]

\* buildAggregateQuery(config); the model makes these calls before the
\* buildSelectQuery calls, which they share no state with but the operation
\* cache
BuildAggregateQuery ==
    /\ lastQuery.config = NoConfig
    /\ \E c \in AggregateConfigs :
          AggregateReturned(c, buildAggregateQuery(c, joins, withClauses, operationCache))
    /\ UNCHANGED <<joins, withClauses, queryCache>>
    /\ UNCHANGED <<conditions, values, paramIndex, binds, lastCall>>
    /\ UNCHANGED utilVars

NextQB ==
    \/ AddJoin
    \/ AddWithClause
    \/ BuildSelectQuery
    \/ BuildAggregateQuery

SpecQB == Init /\ [][NextQB]_vars

----------------------------------------------------------------------------
(* The utility calls.  A result row holds, per column name, the value and   *)
(* (as history) the physical expression of the select list it came from.    *)

\* a registry over two joined tables, with an unqualified column
joinedMappings ==
    (<<"id">>       :> Mapping(<<"t", ".", "id">>, "uuid"))
 @@ (<<"orderId">>  :> Mapping(<<"o", ".", "id">>, "uuid"))
 @@ (<<"userName">> :> Mapping(<<"user_name">>, "string"))
 @@ (<<"status">>   :> Mapping(<<"CASE", " ", "WHEN t.is_active THEN 'ACTIVE' ELSE 'INACTIVE' END",
                                 " AS ", "status">>, "string"))

MapperRegistries == {fieldMappings, joinedMappings}

\* the physical expressions the database names a result column after: a
\* column reference, qualified or not, and an aliased expression
IsColumnReference(dbField) ==
    \/ Len(dbField) = 1 /\ IsColumnWord(dbField[1])
    \/ Len(dbField) = 3 /\ dbField[2] = "." /\ IsColumnWord(dbField[3])

IsAliased(dbField) ==
    /\ Len(dbField) >= 2
    /\ dbField[Len(dbField) - 1] = " AS "
    /\ IsColumnWord(dbField[Len(dbField)])

\* the name of the result column of a physical expression
ResultColumn(dbField) == ColumnSegments(dbField[Len(dbField)])

Selectable(mappings) ==
    {k \in DOMAIN mappings :
        IsColumnReference(mappings[k].dbField) \/ IsAliased(mappings[k].dbField)}

RowValues == {vX, vFive}

\* the rows of at most MaxColumns columns that selecting fields of the
\* registry gives
Rows(mappings) ==
    LET columns == {ResultColumn(mappings[k].dbField) : k \in Selectable(mappings)}
        cells(c) == {[value |-> v, from |-> mappings[k].dbField] :
                        v \in RowValues,
                        k \in {f \in Selectable(mappings) :
                                  ResultColumn(mappings[f].dbField) = c}}
    IN  UNION {{row \in [cs -> UNION {cells(c) : c \in cs}] :
                   \A c \in cs : row[c] \in cells(c)} :
               cs \in {x \in SUBSET columns : Cardinality(x) <= MaxColumns}}

\* mapResponse(row) on a ResponseMapper constructed with a registry; the
\* model makes the calls that leave the date range cache alone before the
\* getMonthRange calls, which they share no state with
MapResponse ==
    /\ dateRangeCache = <<>>
    /\ \E mappings \in MapperRegistries :
          \E row \in Rows(mappings) :
             lastUtil' = Util("mapResponse", [mappings |-> mappings, row |-> row],
                              [mapped |-> mapResponse(mappings, row)], lastUtil.zones)
    /\ UNCHANGED dateRangeCache
    /\ UNCHANGED fbVars
    /\ UNCHANGED <<joins, withClauses, queryCache, lastQuery>>

\* PaginationBuilder.build(totalCount, limit, offset)
PaginationBuild ==
    /\ dateRangeCache = <<>>
    /\ \E totalCount \in 0..MaxRows, limit \in 1..MaxLimit, offset \in 0..MaxRows :
          lastUtil' = Util("build",
                           [totalCount |-> totalCount, limit |-> limit, offset |-> offset],
                           PaginationBuilderBuild(totalCount, limit, offset), lastUtil.zones)
    /\ UNCHANGED dateRangeCache
    /\ UNCHANGED fbVars
    /\ UNCHANGED <<joins, withClauses, queryCache, lastQuery>>

Years == {50, 2023, 2024}

Months == {2, 12}

\* DateFilterUtils.getMonthRange(year, month) in a process whose time zone
\* stays what it was at the earlier calls
GetMonthRange ==
    /\ \E year \in Years, month \in Months, tz \in lastUtil.zones :
          LET cacheKey == <<year, month>>
              hit      == cacheKey \in DOMAIN dateRangeCache
              range    == IF hit THEN dateRangeCache[cacheKey]
                          ELSE getMonthRange(Num(year), Num(month), tz)
          IN  /\ dateRangeCache' = IF hit THEN dateRangeCache
                                   ELSE dateRangeCache @@ (cacheKey :> range)
              /\ lastUtil' = Util("getMonthRange",
                                  [year |-> year, month |-> month, tz |-> tz, hit |-> hit],
                                  range, {tz})
    /\ UNCHANGED fbVars
    /\ UNCHANGED <<joins, withClauses, queryCache, lastQuery>>

NextUtil ==
    \/ MapResponse
    \/ PaginationBuild
    \/ GetMonthRange

SpecUtil == Init /\ [][NextUtil]_vars

----------------------------------------------------------------------------
(* Properties of the builder, its calls taken one by one *)

\* the steps of the last call: the addCondition calls it made
Steps == {lastCall.log[k] : k \in 1..Len(lastCall.log)}

\* did the step leave conditions, values and paramIndex as they were
Untouched(step) == step.after = step.before

\* a computed field, as the specification defines it
ComputedField(field) ==
    /\ field \in DOMAIN fieldMappings
    /\ \/ field \in {<<"status">>, <<"createdByUser">>}
       \/ \E i \in 1..Len(fieldMappings[field].dbField) :
             fieldMappings[field].dbField[i] \in {"CASE", "SELECT"}

\* '<physical expression><cast> = $n'
EqFragment(field, n) ==
    TxtSeq(fieldMappings[field].dbField) \o getCastSuffix(fieldMappings[field].type)
    \o <<Txt(" "), Txt("="), Txt(" "), Ph(n)>>

IsPrefix(s, t) == Len(s) <= Len(t) /\ SubSeq(t, 1, Len(s)) = s

\* C4: a returning addRequiredConditions(map) has emitted, in map order, one
\* eq predicate per entry, whatever the declared type or the physical
\* expression of its field, binding the entry's value.
C4_EveryEntryEmitted ==
    (lastCall.op = "addRequiredConditions" /\ lastCall.err = "none") =>
        LET m  == lastCall.map
            n0 == Len(lastCall.pre.conditions)
            v0 == Len(lastCall.pre.values)
        IN  /\ Len(conditions) = n0 + Len(m)
            /\ Len(values) = v0 + Len(m)
            /\ \A i \in 1..Len(m) :
                  /\ conditions[n0 + i] = EqFragment(m[i].key, lastCall.pre.paramIndex + i - 1)
                  /\ values[v0 + i] = m[i].value

\* does the entry resolve to a filter condition
Resolves(e, excludeFields) ==
    /\ ~shouldSkipParam(e.key, e.value, excludeFields)
    /\ (operatorMatch(e.key) \/ HasField(e.key))

\* the operator the entry resolves to
ResolvedOperator(e) ==
    IF operatorMatch(e.key) THEN e.key[Len(e.key)]
    ELSE getDefaultOperator(fieldMappings[e.key].type)

\* the fragments and parameters of 'WHERE t.id = $1 AND t.name ILIKE $2'
ScenarioText ==
    <<Txt("WHERE "), Txt("t"), Txt("."), Txt("id"), Txt(" "), Txt("="), Txt(" "), Ph(1),
      Txt(" AND "), Txt("t"), Txt("."), Txt("name"), Txt(" "), Txt("ILIKE"), Txt(" "), Ph(2)>>

ScenarioValues == <<StrV(<<"X">>), StrV(<<"%", "b", "o", "b", "%">>)>>

\* C5: addDynamicFilters appends, after what the builder held, the
\* conditions of the keys that resolve, grouped by resolved operator: groups
\* in the order of the first key of each operator, keys of a group in map
\* order; {id:'X'} then {name_like:'bob'} gives the text of the scenario.
C5_GroupedOrder ==
    lastCall.op = "addDynamicFilters" =>
        LET m   == lastCall.map
            log == lastCall.log
            R   == {i \in 1..Len(m) : Resolves(m[i], lastCall.exclude)}
            First(i) == CHOOSE f \in R :
                           /\ ResolvedOperator(m[f]) = ResolvedOperator(m[i])
                           /\ \A g \in R : ResolvedOperator(m[g]) = ResolvedOperator(m[i])
                                             => f <= g
            Before(a, c) == \/ First(a) < First(c)
                            \/ (First(a) = First(c) /\ a < c)
        IN  /\ \A k \in 1..Len(log) :
                  /\ log[k].idx \in R
                  /\ log[k].operator = ResolvedOperator(m[log[k].idx])
            /\ \A p, q \in 1..Len(log) : p < q => Before(log[p].idx, log[q].idx)
            /\ lastCall.err = "none" => {log[k].idx : k \in 1..Len(log)} = R
            /\ \A k \in 1..Len(log) :
                  /\ log[k].before = (IF k = 1 THEN lastCall.pre ELSE log[k - 1].after)
                  /\ IsPrefix(log[k].before.conditions, log[k].after.conditions)
                  /\ IsPrefix(log[k].before.values, log[k].after.values)
            /\ Snapshot(Cur) = (IF log = <<>> THEN lastCall.pre ELSE log[Len(log)].after)
            /\ (/\ lastCall.pre.conditions = <<EqFragment(<<"id">>, 1)>>
                /\ lastCall.pre.values = <<vX>>
                /\ m = <<Entry(<<"name", "like">>, vBob)>>
                /\ lastCall.exclude = {})
               => /\ build(Cur).text = ScenarioText
                  /\ build(Cur).values = ScenarioValues

\* after a required condition, three keys of which the first and the third
\* share an operator: the third is emitted before the second
C5_Witness ==
    /\ lastCall.op = "addDynamicFilters"
    /\ lastCall.err = "none"
    /\ Len(lastCall.pre.conditions) = 1
    /\ Len(lastCall.log) = 3
    /\ lastCall.log[1].idx = 1
    /\ lastCall.log[2].idx = 3
    /\ lastCall.log[3].idx = 2
    /\ Len(conditions) = 4

\* C6: in addDynamicFilters a key whose resolved field name is not in the
\* registry is skipped: its turn raises nothing and emits nothing.
C6_UnknownFieldSkipped ==
    lastCall.op = "addDynamicFilters" =>
        \A step \in Steps :
            step.field \notin DOMAIN fieldMappings => step.err = "none" /\ Untouched(step)

\* C7: in addDynamicFilters the turn of a key on a computed field, with any
\* operator suffix or none, raises nothing and leaves conditions, values and
\* paramIndex as they were.
C7_ComputedSilent ==
    lastCall.op = "addDynamicFilters" =>
        /\ \A step \in Steps :
              ComputedField(step.field) => step.err = "none" /\ Untouched(step)
        /\ (\A i \in 1..Len(lastCall.map) :
               Resolves(lastCall.map[i], lastCall.exclude) =>
                   ComputedField(IF operatorMatch(lastCall.map[i].key)
                                 THEN SubSeq(lastCall.map[i].key, 1, Len(lastCall.map[i].key) - 1)
                                 ELSE lastCall.map[i].key))
           => (lastCall.err \in {"none", "TooManyConditions"} /\ Snapshot(Cur) = lastCall.pre)

\* a computed field filtered with an unregistered suffix and with none
C7_Witness ==
    /\ lastCall.op = "addDynamicFilters"
    /\ lastCall.map = <<Entry(<<"status", "bogus">>, vX), Entry(<<"status">>, vX)>>
    /\ Len(lastCall.log) = 2
    /\ lastCall.err = "none"

\* C8: addCondition with a field that is not in the registry raises
\* UnknownFieldError, for every operator and value, and changes nothing.
C8_UnknownFieldRaises ==
    (lastCall.op = "addCondition" /\ lastCall.cond.field \notin DOMAIN fieldMappings) =>
        /\ lastCall.err = "UnknownField"
        /\ Snapshot(Cur) = lastCall.pre

\* an unregistered field with an unregistered operator, on a builder in use
C8_Witness ==
    /\ lastCall.op = "addCondition"
    /\ lastCall.cond.field = UnknownField
    /\ lastCall.pre.conditions # <<>>
    /\ lastCall.err = "UnknownField"

\* C9 as stated: a filter that names an unregistered operator raises
\* UnsupportedOperatorError and emits nothing.
C9_UnregisteredAlwaysRaises ==
    \A step \in Steps :
        step.operator \notin OperatorNames =>
            step.err = "UnsupportedOperator" /\ Untouched(step)

\* C9 amended: the turn of a filter that names an unregistered operator
\* raises UnsupportedOperatorError and emits nothing when its field is
\* registered and not computed, raises UnknownFieldError when the field is
\* not registered and is a silent no-op when the field is computed; and the
\* lookup of a name answers the same with the cache as without it.
C9_UnregisteredOperator ==
    /\ \A step \in Steps :
          step.operator \notin OperatorNames =>
              /\ Untouched(step)
              /\ step.err = (IF step.field \notin DOMAIN fieldMappings THEN "UnknownField"
                             ELSE IF ComputedField(step.field) THEN "none"
                             ELSE "UnsupportedOperator")
    /\ \A name \in OperatorNames \cup {"bogus"} :
          LET cached == FilterOperationsGet(operationCache, name)
              direct == FilterOperationsGet(EmptyCache, name)
          IN  cached.err = direct.err /\ cached.operation = direct.operation

\* an unregistered suffix on a registered field raises while the cache
\* already holds an operator
C9_Witness ==
    /\ lastCall.op = "addDynamicFilters"
    /\ lastCall.err = "UnsupportedOperator"
    /\ lastCall.map = <<Entry(<<"name", "bogus">>, vX)>>
    /\ DOMAIN operationCache # {}

\* the number of keys of the map that resolve to a filter condition
ResolvingCount(m, excludeFields) ==
    Cardinality({i \in 1..Len(m) : Resolves(m[i], excludeFields)})

\* C10: an addDynamicFilters call whose queryParams hold more than
\* maxConditions keys that resolve to filter conditions raises
\* TooManyConditionsError.
C10_OverCapRaises ==
    (/\ lastCall.op = "addDynamicFilters"
     /\ ResolvingCount(lastCall.map, lastCall.exclude) > maxConditions)
    => lastCall.err = "TooManyConditions"

\* exactly one resolving key over the cap, and no other key
C10_Witness ==
    /\ lastCall.op = "addDynamicFilters"
    /\ Len(lastCall.map) = maxConditions + 1
    /\ ResolvingCount(lastCall.map, lastCall.exclude) = maxConditions + 1
    /\ lastCall.err = "TooManyConditions"
    /\ conditions = <<>>

\* C11: whatever the sequence of addRequiredConditions, addDynamicFilters and
\* addCondition calls, the builder never holds more than maxConditions
\* fragments.
C11_TotalCapped == Len(conditions) <= maxConditions

\* the text a predicate may hold: the words of the physical expressions of
\* the registry, the operator texts, the cast suffixes, and the spaces,
\* brackets and separators the templates of buildCondition put between them
PredicateText ==
    UNION {Range(fieldMappings[field].dbField) : field \in DOMAIN fieldMappings}
    \cup {FILTER_OPERATIONS[k].sqlOperator : k \in 1..Len(FILTER_OPERATIONS)}
    \cup {"::date", "::timestamp", "::jsonb", "::text[]"}
    \cup {" ", " (", "(", ")", ", ", " AND ", " = "}

\* C13: the fragments the builder holds are made only of physical
\* expressions of the registry, operator text, cast suffixes and
\* placeholders; no text of a filter value is part of them.
C13_ValuesOnlyBound ==
    \A j \in 1..Len(conditions) :
       \A i \in 1..Len(conditions[j]) :
          conditions[j][i].t = "txt" => conditions[j][i].s \in PredicateText

\* the steps of the last call on a registered field that is not computed
FilterSteps == {step \in Steps : HasField(step.field) /\ ~ComputedField(step.field)}

\* the fragment a step appended, the parameters it appended and the number
\* it advanced the placeholder index by
Appended(step, fragment, args, advance) ==
    /\ step.err = "none"
    /\ step.after.conditions = Append(step.before.conditions, fragment)
    /\ step.after.values = step.before.values \o args
    /\ step.after.paramIndex = step.before.paramIndex + advance

\* the parts of a comma-separated string, spaces around each part removed,
\* or the elements of a list
ListParts(value) ==
    IF IsArray(value) THEN value.items
    ELSE LET parts == Split(Chars(value), ",")
         IN  [i \in 1..Len(parts) |-> StrV(Trim(parts[i]))]

\* '<physical expression> <opText> ($n, ..., $n+k-1)'
InFragment(field, opText, n, k) ==
    TxtSeq(fieldMappings[field].dbField) \o <<Txt(" "), Txt(opText), Txt(" (")>>
    \o [i \in 1..(IF k = 0 THEN 0 ELSE 2 * k - 1) |->
           IF i % 2 = 1 THEN Ph(n + (i - 1) \div 2) ELSE Txt(", ")]
    \o <<Txt(")")>>

\* C16: an in or notIn filter on a comma-separated string of k parts or a
\* list of k elements appends the one fragment '<field> IN ($n, ..., $n+k-1)'
\* ('NOT IN' for notIn), appends the k trimmed parts in order as parameters
\* and advances the placeholder index by k.
C16_InList ==
    \A step \in FilterSteps :
       (step.operator \in {"in", "notIn"} /\ (IsString(step.value) \/ IsArray(step.value))) =>
          Appended(step,
                   InFragment(step.field, IF step.operator = "in" THEN "IN" ELSE "NOT IN",
                              step.before.paramIndex, Len(ListParts(step.value))),
                   ListParts(step.value), Len(ListParts(step.value)))

\* an in filter on the string 'a, b' has bound 'a' and 'b' after an earlier
\* fragment
C16_Witness ==
    \E step \in FilterSteps :
       /\ step.operator = "in"
       /\ step.value = vList
       /\ step.before.paramIndex > 1
       /\ step.after.values = step.before.values \o <<StrV(<<"a">>), StrV(<<"b">>)>>
       /\ step.after.paramIndex = step.before.paramIndex + 2

\* '<physical expression> <opText> $n'
PlainFragment(field, opText, n) ==
    TxtSeq(fieldMappings[field].dbField) \o <<Txt(" "), Txt(opText), Txt(" "), Ph(n)>>

\* C17: an isTrue filter binds the boolean true and an isFalse filter the
\* boolean false, whatever value was passed; a returning addDynamicFilters
\* call has bound true for every bare isActive key it did not skip, the
\* value false included.
C17_BooleanLiteral ==
    /\ \A step \in FilterSteps :
          step.operator \in {"isTrue", "isFalse"} =>
             Appended(step, PlainFragment(step.field, "=", step.before.paramIndex),
                      <<BoolV(step.operator = "isTrue")>>, 1)
    /\ (lastCall.op = "addDynamicFilters" /\ lastCall.err = "none") =>
          \A i \in 1..Len(lastCall.map) :
             (/\ lastCall.map[i].key = <<"isActive">>
              /\ <<"isActive">> \notin lastCall.exclude
              /\ ~IsNullish(lastCall.map[i].value)
              /\ lastCall.map[i].value # StrV(<<>>))
             => \E step \in Steps :
                   /\ step.idx = i
                   /\ step.field = <<"isActive">>
                   /\ step.operator = "isTrue"
                   /\ step.after.values = step.before.values \o <<BoolV(TRUE)>>

\* addDynamicFilters({isActive: false}) has bound true
C17_Witness ==
    /\ lastCall.op = "addDynamicFilters"
    /\ lastCall.err = "none"
    /\ \E step \in Steps :
          /\ step.field = <<"isActive">>
          /\ step.value = BoolV(FALSE)
          /\ step.after.conditions =
                Append(step.before.conditions,
                       <<Txt("t"), Txt("."), Txt("is_active"), Txt(" "), Txt("="), Txt(" "),
                         Ph(step.before.paramIndex)>>)
          /\ step.after.values = step.before.values \o <<BoolV(TRUE)>>

\* the operator text of the full-text search family
FtsText(operator) ==
    CASE operator = "fts"       -> "@@"
      [] operator = "ftsPlain"  -> "@@ plainto_tsquery"
      [] operator = "ftsPhrase" -> "@@ phraseto_tsquery"
      [] operator = "ftsWeb"    -> "@@ websearch_to_tsquery"

\* '<physical expression> <opText>(<inner>)'
FtsFragment(field, opText, inner) ==
    TxtSeq(fieldMappings[field].dbField) \o <<Txt(" "), Txt(opText), Txt("(")>>
    \o TxtSeq(inner) \o <<Txt(")")>>

\* the steps of the last call with an operator of the full-text search family
FtsSteps == {step \in FilterSteps : step.operator \in {"fts", "ftsPlain", "ftsPhrase", "ftsWeb"}}

\* has the builder a custom transformer for the physical expression of the field
HasCustom(field) == fieldMappings[field].dbField \in DOMAIN customTransformers

\* C18 as the specification states it: every filter of the full-text search
\* family appends the one fragment '<field> <OP>('<value>')' without a
\* placeholder, appends the raw value as one parameter and advances the
\* placeholder index by one.
C18_FtsQuoted ==
    \A step \in FtsSteps :
       Appended(step,
                FtsFragment(step.field, FtsText(step.operator),
                            <<"'">> \o ToStr(step.value) \o <<"'">>),
                <<step.value>>, 1)

\* C18: a filter of the full-text search family on a field without custom
\* transformer appends the one fragment '<field> <OP>('<value>')', which holds
\* no placeholder, appends the raw value as one parameter and advances the
\* placeholder index by one.  On a field with a custom transformer the text
\* between the brackets is the transformer's result, without quotes, and a
\* transformer that raises leaves the builder as it was.
C18_FtsInlined ==
    \A step \in FtsSteps :
       /\ ~HasCustom(step.field) =>
             Appended(step,
                      FtsFragment(step.field, FtsText(step.operator),
                                  <<"'">> \o ToStr(step.value) \o <<"'">>),
                      <<step.value>>, 1)
       /\ (HasCustom(step.field) /\ IsString(step.value)) =>
             Appended(step,
                      FtsFragment(step.field, FtsText(step.operator),
                                  Trim([i \in 1..Len(Chars(step.value)) |->
                                          Lower(Chars(step.value)[i])])),
                      <<step.value>>, 1)
       /\ (HasCustom(step.field) /\ ~IsString(step.value)) =>
             step.err = "TypeError" /\ Untouched(step)
       /\ step.err = "none" =>
             Placeholders(step.after.conditions[Len(step.after.conditions)]) = <<>>

\* name @@('bob') is the first fragment and 'bob' the first parameter; the
\* fragment after it holds $2, the first placeholder of the text
C18_Witness ==
    /\ Len(conditions) >= 2
    /\ conditions[1] = <<Txt("t"), Txt("."), Txt("name"), Txt(" "), Txt("@@"), Txt("("),
                         Txt("'"), Txt("b"), Txt("o"), Txt("b"), Txt("'"), Txt(")")>>
    /\ values[1] = vBob
    /\ Placeholders(conditions[2]) # <<>>
    /\ Placeholders(conditions[2])[1] = 2

\* the two ends of a range: the elements of a two-element list, the start
\* and end of an object, the two parts of an 'a,b' string
RangeEnds(value) ==
    IF IsArray(value) THEN <<value.items[1], value.items[2]>>
    ELSE IF IsObject(value) THEN <<Prop(value, "start"), Prop(value, "end")>>
    ELSE <<StrV(Split(Chars(value), ",")[1]), StrV(Split(Chars(value), ",")[2])>>

\* is the value a range: a two-element list, an object with start and end, a
\* string of two comma-separated parts
IsRange(value) ==
    \/ IsArray(value) /\ Len(value.items) = 2
    \/ IsObject(value) /\ Includes(value.keys, "start") /\ Includes(value.keys, "end")
    \/ IsString(value) /\ Len(Split(Chars(value), ",")) = 2

\* C19: a between or notBetween filter on a range appends the one fragment
\* '<field> BETWEEN $n AND $n+1' ('NOT BETWEEN' for notBetween) and binds
\* the two ends of the range in order, whatever they are: the elements of a
\* list [a, b], the start and end of an object, the two parts of a string
\* 'a,b'.
C19_RangeEnds ==
    \A step \in FilterSteps :
       (step.operator \in {"between", "notBetween"} /\ IsRange(step.value)) =>
          Appended(step,
                   TxtSeq(fieldMappings[step.field].dbField)
                   \o <<Txt(" "),
                        Txt(IF step.operator = "between" THEN "BETWEEN" ELSE "NOT BETWEEN"),
                        Txt(" "), Ph(step.before.paramIndex), Txt(" AND "),
                        Ph(step.before.paramIndex + 1)>>,
                   RangeEnds(step.value), 2)

\* C20: a jsonPath filter on a pair {path, value} appends the one fragment
\* '<field>#>> $n = $n+1' and binds the path of the pair as parameter n and
\* its value as parameter n+1.
C20_JsonPathPair ==
    \A step \in FilterSteps :
       (/\ step.operator = "jsonPath"
        /\ IsObject(step.value)
        /\ Includes(step.value.keys, "path")
        /\ Includes(step.value.keys, "value"))
       => Appended(step,
                   TxtSeq(fieldMappings[step.field].dbField)
                   \o <<Txt("#>>"), Txt(" "), Ph(step.before.paramIndex), Txt(" = "),
                        Ph(step.before.paramIndex + 1)>>,
                   <<Prop(step.value, "path"), Prop(step.value, "value")>>, 2)

\* the default operator of a declared type
TypeDefault(type) ==
    CASE type = "string" -> "like"
      [] type = "boolean" -> "isTrue"
      [] type \in {"uuid", "number"} -> "eq"
      [] type \in {"date", "timestamp"} -> "dateRange"
      [] type = "jsonb" -> "jsonContains"
      [] type = "array" -> "containsArray"
      [] type = "tsvector" -> "fts"
      [] OTHER -> "eq"

\* a key without a trailing '_<letters>'
NoSuffix(key) == Len(key) = 1 \/ key[Len(key)] \in NonAlphaWords

\* the keys of the last addDynamicFilters call that are not skipped, have no
\* suffix and are registered logical fields
BareKeys ==
    {i \in 1..Len(lastCall.map) :
        /\ ~IsNullish(lastCall.map[i].value)
        /\ lastCall.map[i].value # StrV(<<>>)
        /\ lastCall.map[i].key \notin lastCall.exclude
        /\ lastCall.map[i].key \notin ReservedKeys
        /\ NoSuffix(lastCall.map[i].key)
        /\ lastCall.map[i].key \in DOMAIN fieldMappings}

\* C21: in addDynamicFilters the turn of a non-skipped key without suffix
\* that is a registered logical field is an addCondition on that field with
\* the default operator of its declared type, and a returning call has given
\* every such key its turn.
C21_DefaultOperator ==
    lastCall.op = "addDynamicFilters" =>
        /\ \A step \in Steps :
              step.idx \in BareKeys =>
                 /\ step.field = lastCall.map[step.idx].key
                 /\ step.operator = TypeDefault(fieldMappings[step.field].type)
                 /\ step.value = lastCall.map[step.idx].value
        /\ lastCall.err = "none" => \A i \in BareKeys : \E step \in Steps : step.idx = i

\* the bare key tags has been filtered with containsArray
C21_Witness ==
    /\ lastCall.op = "addDynamicFilters"
    /\ lastCall.err = "none"
    /\ \E step \in Steps :
          /\ lastCall.map[step.idx].key = <<"tags">>
          /\ step.operator = "containsArray"
          /\ step.after.conditions =
                Append(step.before.conditions,
                       <<Txt("t"), Txt("."), Txt("tags"), Txt("::text[]"), Txt(" "), Txt("@>"),
                         Txt(" "), Ph(step.before.paramIndex)>>)

\* the operators buildCondition has no branch for
DefaultClass ==
    {"eq", "ne", "gt", "gte", "lt", "lte", "like", "startsWith", "endsWith", "contains",
     "notContains", "regexp", "notRegexp", "iRegexp", "notIRegexp", "is", "not", "overlap",
     "contained", "containsArray"}

\* the operator's own transform of a value
OwnTransform(operator, value) ==
    CASE operator \in {"like", "contains", "notContains"} ->
            StrV(<<"%">> \o ToStr(value) \o <<"%">>)
      [] operator = "startsWith" -> StrV(ToStr(value) \o <<"%">>)
      [] operator = "endsWith" -> StrV(<<"%">> \o ToStr(value))
      [] OTHER -> value

\* C22: a filter of the default class or with ciEq or ciNe binds one
\* parameter: on a field with a custom transformer the transformer's result
\* for the value (' XB' lower-cased and trimmed is 'xb'), in place of the
\* operator's own transform, and nothing when the transformer raises; on a
\* field without custom transformer the operator's own transform of the
\* value, the value itself when the operator has none.
C22_CustomReplaces ==
    \A step \in FilterSteps :
       step.operator \in DefaultClass \cup {"ciEq", "ciNe"} =>
          /\ (HasCustom(step.field) /\ step.value = vPadded) =>
                /\ step.err = "none"
                /\ step.after.values = step.before.values \o <<StrV(<<"x", "b">>)>>
                /\ step.after.paramIndex = step.before.paramIndex + 1
          /\ (HasCustom(step.field) /\ ~IsString(step.value)) =>
                step.err = "TypeError" /\ Untouched(step)
          /\ ~HasCustom(step.field) =>
                /\ step.err = "none"
                /\ step.after.values
                      = step.before.values \o <<OwnTransform(step.operator, step.value)>>
                /\ step.after.paramIndex = step.before.paramIndex + 1

\* emailSubject like ' XB' has bound 'xb', not '% XB%'
C22_Witness ==
    \E step \in FilterSteps :
       /\ step.field = <<"emailSubject">>
       /\ step.operator = "like"
       /\ step.value = vPadded
       /\ step.after.values = step.before.values \o <<StrV(<<"x", "b">>)>>

\* 'WHERE ' and the fragments with ' AND ' between them
WhereText(fragments) ==
    <<Txt("WHERE ")>>
    \o Concat([i \in 1..Len(fragments) |->
                  IF i = 1 THEN fragments[i] ELSE <<Txt(" AND ")>> \o fragments[i]])

\* C23: build() raises nothing and leaves the builder as it was; it returns
\* 'WHERE ' and the fragments joined by ' AND ', the empty text when there is
\* no fragment, with the parameters; a build() that follows a build() returns
\* what the earlier one returned.
C23_BuildPure ==
    lastCall.op = "build" =>
        /\ lastCall.err = "none"
        /\ Snapshot(Cur) = lastCall.pre
        /\ lastCall.built.text = (IF conditions = <<>> THEN <<>> ELSE WhereText(conditions))
        /\ lastCall.built.values = values
        /\ lastCall.again => lastCall.built = lastCall.earlier

\* a second build() in a row on a builder with two fragments
C23_Witness ==
    /\ lastCall.op = "build"
    /\ lastCall.again
    /\ Len(conditions) = 2
    /\ lastCall.earlier.values = values
    /\ values # <<>>

\* C28: an addDynamicFilters call whose queryParams hold at most
\* maxConditions keys that resolve to filter conditions never raises
\* TooManyConditionsError, whatever other keys the map holds and wherever they
\* stand; and when the error is raised no condition of the call has been
\* emitted.
C28_WithinCap ==
    lastCall.op = "addDynamicFilters" =>
        /\ ResolvingCount(lastCall.map, lastCall.exclude) <= maxConditions
           => lastCall.err # "TooManyConditions"
        /\ lastCall.err = "TooManyConditions" => Snapshot(Cur) = lastCall.pre

\* the keys of the last addDynamicFilters call that are not skipped and are
\* exactly the name of a registered logical field that is not computed
ExactKeys ==
    {i \in 1..Len(lastCall.map) :
        /\ ~shouldSkipParam(lastCall.map[i].key, lastCall.map[i].value, lastCall.exclude)
        /\ lastCall.map[i].key \in DOMAIN fieldMappings
        /\ ~ComputedField(lastCall.map[i].key)}

\* C29: in addDynamicFilters a non-skipped key that is exactly the name of a
\* registered logical field that is not computed has its turn as an
\* addCondition on that field with the default operator of its type, which
\* does not raise for want of a field or of an operator; this holds for every
\* registered name, also one that ends in '_<letters>' such as created_at.
C29_ExactName ==
    lastCall.op = "addDynamicFilters" =>
        /\ \A step \in Steps :
              step.idx \in ExactKeys =>
                 /\ step.field = lastCall.map[step.idx].key
                 /\ step.operator = TypeDefault(fieldMappings[step.field].type)
                 /\ step.err \notin {"UnknownField", "UnsupportedOperator"}
        /\ lastCall.err = "none" => \A i \in ExactKeys : \E step \in Steps : step.idx = i

----------------------------------------------------------------------------
(* Properties of the QueryBuilder *)

\* the filter builder the configuration alone gives
FiltersOf(config) == FilterBuilderOf(config, EmptyCache)

\* the tokens of a text from 'LIMIT' on, line breaks left out
LimitClause(text) ==
    LET from == {i \in 1..Len(text) : text[i] = Txt("LIMIT ")}
    IN  IF from = {} THEN <<>>
        ELSE SelectSeq(SubSeq(text, CHOOSE i \in from : \A j \in from : i <= j, Len(text)),
                       LAMBDA tok : tok # Txt("\n"))

\* C3: every returning buildSelectQuery call, a repeated one included, gives
\* a selectQuery that ends 'LIMIT $n+1 OFFSET $n+2' and whose values are the n
\* filter parameters of the call followed by its limit and its offset.
C3_LimitOffsetTrail ==
    (/\ lastQuery.op = "buildSelectQuery"
     /\ lastQuery.err = "none"
     /\ FiltersOf(lastQuery.config).err = "none")
    => LET n  == Len(FiltersOf(lastQuery.config).values)
           sq == lastQuery.queries.selectQuery
       IN  /\ LimitClause(sq.text) = <<Txt("LIMIT "), Ph(n + 1), Txt(" OFFSET "), Ph(n + 2)>>
           /\ Len(sq.values) = n + 2
           /\ sq.values[n + 1] = lastQuery.config.limit
           /\ sq.values[n + 2] = lastQuery.config.offset

\* the whole name is an identifier or two identifiers joined by a dot,
\* followed or not by a space and an identifier
WhollyValid(name) ==
    LET parts  == Split(name, " ")
        dotted == Split(parts[1], ".")
    IN  /\ Len(parts) \in {1, 2}
        /\ Len(dotted) \in {1, 2}
        /\ \A k \in 1..Len(dotted) : identifierRegexTest(dotted[k])
        /\ Len(parts) = 2 => identifierRegexTest(parts[2])

\* the names the last call on the QueryBuilder was given
NamesGiven ==
    CASE lastQuery.op \in {"addJoin", "addWithClause"} -> {lastQuery.name}
      [] lastQuery.op = "buildSelectQuery" -> {lastQuery.config.tableName}
      [] lastQuery.op = "buildAggregateQuery" ->
            {lastQuery.aggregate.tableName}
            \cup {lastQuery.aggregate.aggregates[k].alias
                  : k \in 1..Len(lastQuery.aggregate.aggregates)}
      [] OTHER -> {}

\* C12: a call of addJoin, addWithClause, buildSelectQuery or
\* buildAggregateQuery that is given a table, CTE or alias name which is not,
\* as a whole, made of identifiers (schema.table and an optional alias)
\* raises.
C12_InvalidNameRejected ==
    (\E name \in NamesGiven : ~WhollyValid(name)) => lastQuery.err # "none"

\* the tokens of a text from 'ORDER BY' to the end of its line
OrderByClause(text) ==
    LET from == {i \in 1..Len(text) : text[i] = Txt("ORDER BY ")}
        first == CHOOSE i \in from : \A j \in from : i <= j
        ends == {i \in first..Len(text) : text[i] = Txt("\n")}
    IN  IF from = {} THEN <<>>
        ELSE SubSeq(text, first, (CHOOSE i \in ends : \A j \in ends : i <= j) - 1)

\* the physical expression of the first field buildSelectQuery selects: the
\* first registered one of those asked for, the first of the registry when
\* none is asked for
FirstSelected(fields) ==
    LET asked == normalizeFields(fields)
        known == {i \in 1..Len(asked) : HasField(NameOfString(asked[i]))}
    IN  IF asked = <<>> THEN fieldMappings[fieldOrder[1]].dbField
        ELSE fieldMappings[NameOfString(asked[CHOOSE i \in known : \A j \in known : i <= j])].dbField

\* do the table name and the fields of a configuration pass their validation
SelectsSomething(config) ==
    /\ WhollyValid(config.tableName)
    /\ \/ normalizeFields(config.fields) = <<>>
       \/ \E i \in 1..Len(normalizeFields(config.fields)) :
             HasField(NameOfString(normalizeFields(config.fields)[i]))

\* C14: a buildSelectQuery call whose sortField is a non-empty name absent
\* from the registry, or names a field whose physical expression contains
\* CASE or SELECT, raises and returns no query: the unknown-sort-field error
\* in the first case and the computed-sort-field error in the second when the
\* table name and the fields pass their own validation, which comes first.
\* A returning call with a null or empty sortField orders by the first
\* selected field.
C14_SortFieldValidated ==
    lastQuery.op = "buildSelectQuery" =>
        LET config == lastQuery.config
            sort   == config.sortField
            named  == IsString(sort) /\ Chars(sort) # <<>>
            name   == IF named THEN NameOfString(Chars(sort)) ELSE <<>>
            computed == /\ named
                        /\ name \in DOMAIN fieldMappings
                        /\ \E i \in 1..Len(fieldMappings[name].dbField) :
                              fieldMappings[name].dbField[i] \in {"CASE", "SELECT"}
        IN  /\ (named /\ name \notin DOMAIN fieldMappings) =>
                  /\ lastQuery.err # "none"
                  /\ lastQuery.queries = NoQueries
                  /\ SelectsSomething(config) => lastQuery.err = "InvalidSortField"
            /\ computed =>
                  /\ lastQuery.err # "none"
                  /\ lastQuery.queries = NoQueries
                  /\ SelectsSomething(config) => lastQuery.err = "ComputedSortField"
            /\ (~named /\ lastQuery.err = "none") =>
                  IsPrefix(<<Txt("ORDER BY ")>> \o TxtSeq(FirstSelected(config.fields))
                           \o <<Txt(" ")>>,
                           OrderByClause(lastQuery.queries.selectQuery.text))

\* a call with the computed field status as sortField has raised
C14_Witness ==
    /\ lastQuery.op = "buildSelectQuery"
    /\ lastQuery.config.sortField = StrV(<<"status">>)
    /\ lastQuery.err = "ComputedSortField"
    /\ lastQuery.queries = NoQueries

\* C15: a buildAggregateQuery call with a groupBy key that is not a
\* registered logical field, or that names a field whose physical expression
\* is computed, raises and returns no query.
C15_GroupByValidated ==
    (/\ lastQuery.op = "buildAggregateQuery"
     /\ \E k \in 1..Len(lastQuery.aggregate.groupBy) :
           \/ ~HasField(NameOfString(lastQuery.aggregate.groupBy[k]))
           \/ ComputedField(NameOfString(lastQuery.aggregate.groupBy[k])))
    => /\ lastQuery.err # "none"
       /\ lastQuery.query = NoStatement

\* what a QueryBuilder with the same joins and with clauses but an empty
\* query cache returns for the configuration of the last call
Uncached == buildSelectQuery(lastQuery.config, joins, withClauses, <<>>, operationCache)

\* C27: the filter predicate, the filter parameters, the join clause and the
\* WITH clause every buildSelectQuery returns are those a QueryBuilder with the
\* same joins and with clauses and an empty query cache returns for the same
\* configuration.
C27_CachePure ==
    lastQuery.op = "buildSelectQuery" =>
        /\ lastQuery.err = Uncached.err
        /\ lastQuery.queries.countQuery = Uncached.queries.countQuery
        /\ lastQuery.queries.selectQuery.text = Uncached.queries.selectQuery.text

\* the join clause of a text assembled with the joins the QueryBuilder holds
JoinClause == TxtSeq(JoinWith([i \in 1..Len(joins) |-> joins[i].text], <<" ">>))

\* the text holds 'FROM <schema>.<table>', white space, and the join clause
JoinsSeparated(text, tableName) ==
    LET from == <<Txt("FROM ")>> \o TxtSeq(schema) \o <<Txt(".")>>
                \o TxtSeq(sanitizeIdentifier(tableName).s)
    IN  \E i \in 1..Len(text) :
           /\ i + Len(from) + Len(JoinClause) <= Len(text)
           /\ SubSeq(text, i, i + Len(from) - 1) = from
           /\ text[i + Len(from)] \in {Txt(" "), Txt("\n")}
           /\ SubSeq(text, i + Len(from) + 1, i + Len(from) + Len(JoinClause)) = JoinClause

\* the texts the last call assembled, each with the table name it was given
AssembledTexts ==
    IF lastQuery.err # "none" \/ lastQuery.hit THEN {}
    ELSE IF lastQuery.op = "buildSelectQuery"
    THEN {[text |-> lastQuery.queries.selectQuery.text, tableName |-> lastQuery.config.tableName],
          [text |-> lastQuery.queries.countQuery.text, tableName |-> lastQuery.config.tableName]}
    ELSE IF lastQuery.op = "buildAggregateQuery"
    THEN {[text |-> lastQuery.query.text, tableName |-> lastQuery.aggregate.tableName]}
    ELSE {}

\* C30: in every select, count and aggregate text assembled while the
\* QueryBuilder holds joins, the table name is followed by white space and
\* then by the joins, once each in the order they were first added; and an
\* addJoin leaves the joins added before it, their ON conditions included, as
\* they are, adding none whose join type and table a join already has.
C30_JoinsSeparated ==
    /\ [](joins # <<>> => \A q \in AssembledTexts : JoinsSeparated(q.text, q.tableName))
    /\ [](\A i, k \in 1..Len(joins) : joins[i].key = joins[k].key => i = k)
    /\ [][\A i \in 1..Len(joins) : i <= Len(joins') /\ joins'[i] = joins[i]]_vars

----------------------------------------------------------------------------
(* Properties of the utility classes *)

\* is the logical field of the registry a computed field
ComputedIn(mappings, field) ==
    \/ field \in {<<"status">>, <<"createdByUser">>}
    \/ \E i \in 1..Len(mappings[field].dbField) :
          mappings[field].dbField[i] \in {"CASE", "SELECT"}

\* is the column of the logical field present in the row
ColumnPresent(mappings, field, row) ==
    /\ field \in Selectable(mappings)
    /\ ResultColumn(mappings[field].dbField) \in DOMAIN row
    /\ row[ResultColumn(mappings[field].dbField)].from = mappings[field].dbField

\* C24: mapResponse gives every registered non-computed logical field whose
\* column is present in the row the value of that column, gives no key that
\* is not a registered logical field name, and attributes no value to a
\* logical field other than the one whose column it came from.
C24_RowMapped ==
    lastUtil.op = "mapResponse" =>
        LET mappings == lastUtil.input.mappings
            row      == lastUtil.input.row
            mapped   == lastUtil.result.mapped
        IN  /\ \A k \in DOMAIN mappings :
                  ~ComputedIn(mappings, k) /\ ColumnPresent(mappings, k, row)
                  => /\ k \in DOMAIN mapped
                     /\ mapped[k] = row[ResultColumn(mappings[k].dbField)]
            /\ DOMAIN mapped \subseteq DOMAIN mappings
            /\ \A k \in DOMAIN mapped : mapped[k].from = mappings[k].dbField

\* C25: for totalCount >= 0, limit > 0 and offset >= 0, build returns
\* totalPages = ceil(totalCount / limit) and pageNumber = floor(offset / limit),
\* and hasNextPage is true exactly when rows remain after the current page,
\* that is when offset + limit < totalCount.
C25_Pagination ==
    lastUtil.op = "build" =>
        LET totalCount == lastUtil.input.totalCount
            limit      == lastUtil.input.limit
            offset     == lastUtil.input.offset
            result     == lastUtil.result
        IN  /\ result.totalPages * limit >= totalCount
            /\ (result.totalPages - 1) * limit < totalCount
            /\ result.pageNumber * limit <= offset
            /\ (result.pageNumber + 1) * limit > offset
            /\ result.hasNextPage <=> (offset + limit < totalCount)

\* the order of the characters of an ISO string
IsoChars == <<"-", ".", "0", "1", "2", "3", "4", "5", "6", "7", "8", "9", ":", "T", "Z">>

CharRank(c) == CHOOSE i \in 1..Len(IsoChars) : IsoChars[i] = c

\* s < t for two ISO strings, as JavaScript compares strings
StrBefore(s, t) ==
    \E i \in 1..Len(t) :
       /\ \A j \in 1..(i - 1) : j <= Len(s) /\ s[j] = t[j]
       /\ i > Len(s) \/ CharRank(s[i]) < CharRank(t[i])

\* the ISO string of the first instant of the month in the zone
MonthStart(year, month, tz) ==
    LocalToISO([y |-> year, m |-> month, d |-> 1], 0, 0, 0, tz)

\* the ISO string of 23:59:59.999 of the last day of the month in the zone
MonthEnd(year, month, tz) ==
    LocalToISO([y |-> year, m |-> month, d |-> DaysInMonth(year, month)], 1439, 59, 999, tz)

\* C26: for every year and every month 1..12, getMonthRange returns the first
\* instant of that month as start and the last instant (23:59:59.999 of its
\* last day) as end, with start < end, and a repeated call with the same
\* year and month returns the range of the first call.
C26_MonthRange ==
    lastUtil.op = "getMonthRange" =>
        LET year  == lastUtil.input.year
            month == lastUtil.input.month
            tz    == lastUtil.input.tz
            range == lastUtil.result
        IN  /\ range.start = MonthStart(year, month, tz)
            /\ range.end = MonthEnd(year, month, tz)
            /\ StrBefore(range.start, range.end)
            /\ lastUtil.input.hit => range = dateRangeCache[<<year, month>>]

====
